---- MODULE Spec2Model ----
(***************************************************************************)
(* Model of the execution-graph node of the CPU plugin (MKLDNNNode):       *)
(* node <-> edge linkage (addEdge / removeEdge / remove), the              *)
(* priority-ordered, neighbour-aware primitive descriptor selection, the   *)
(* constant classification and in-place eligibility, the weight cache, the *)
(* format filter and the dynamic batch.                                    *)
(***************************************************************************)
EXTENDS Integers, Sequences, FiniteSets, TLC

\* ------------------------------------------------------------------ bounds
\* The graph universe: three nodes and three edges.
Nodes == 1..3
Edges == 1..3

\* At most MaxEntries entries in all childEdges lists together.
MaxEntries == 3
\* At most MaxGone destroyed objects (nodes and edges together).
MaxGone == 1

\* A null MKLDNNNodePtr (the result of locking an expired weak node pointer).
Null == 0

VARIABLES
    edgeParent,     \* MKLDNNEdge::parent  (fixed at construction)
    edgeChild,      \* MKLDNNEdge::child   (fixed at construction)
    nodeAlive,      \* whether the node object still exists
    edgeAlive,      \* whether the edge object still exists (weak_ptr not expired)
    parentEdges,    \* MKLDNNNode::parentEdges : vector of weak edge pointers
    childEdges,     \* MKLDNNNode::childEdges  : vector of weak edge pointers
    edgePort,       \* MKLDNNEdge::parent_port : the parent's output port of the edge
    supportedPrimitiveDescriptors,      \* per node: the enumerated descriptors
    selectedPrimitiveDescriptorIndex,   \* per node: 0-based index, -1 = none selected
    implPriorities, \* per node: the stored implementation priority list
    threw,          \* whether the last operation raised an error (IE_THROW)
    last,           \* the operation performed by the last step
    ret,            \* the value returned by the last operation (NoRet for void)
    constant,       \* per node: MKLDNNNode::constant (ConstantType)
    nodeType,       \* per node: MKLDNNNode::type
    edgeDims,       \* per edge: MKLDNNEdge::getDims()
    nodeName,       \* per node: MKLDNNNode::name
    internalBlobs,  \* per node: the weight blobs, each a record (byteSize, content)
    internalBlobMemory, \* per node: the buffers prepareMemory collected
    cacheOf,        \* per node: MKLDNNNode::weightCache, "shared" or "null"
    weightCache,    \* the shared cache: key -> buffer
    buffers,        \* the buffers built so far, by identity: what each was built from
    pc,             \* per node: where its prepareMemory call stands
    guard,          \* the owner of the cache's lock (Null when free)
    inputMemoryFormatsFilter,   \* per node: the declared input format hints
    outputMemoryFormatsFilter,  \* per node: the declared output format hints
    dynBatchLim,    \* per node: the configured batch limit
    inDims,         \* per node: the input shapes
    outDims,        \* per node: the output shapes
    primArgs,       \* per node: the bound primitive arguments, argument -> leading dims
    descs,          \* per node: MKLDNNNode::descs, the descriptor templates
    edgeStatus,     \* per edge: MKLDNNEdge::status
    edgeMemory,     \* per edge: the memory object the edge holds
    edgeChildPort,  \* per edge: MKLDNNEdge::child_port, the child's input port of the edge
    outOfBounds,    \* whether the last operation indexed a port config list past its end
    walk,           \* the isConstant call in progress: its node, its direction, checkNodes
    stack           \* the calls of a finalization in progress, the innermost first

graphVars == <<edgeParent, edgeChild, edgePort, nodeAlive, edgeAlive, parentEdges, childEdges>>
selectVars == <<supportedPrimitiveDescriptors, selectedPrimitiveDescriptorIndex, implPriorities>>
constVars == <<constant, nodeType, edgeDims, walk, stack>>
cacheVars == <<nodeName, internalBlobs, internalBlobMemory, cacheOf, weightCache, buffers, pc, guard>>
filterVars == <<inputMemoryFormatsFilter, outputMemoryFormatsFilter>>
batchVars == <<dynBatchLim, inDims, outDims, primArgs>>
planVars == <<descs, edgeStatus, edgeMemory, edgeChildPort, outOfBounds>>
vars == <<graphVars, selectVars, constVars, cacheVars, filterVars, batchVars, planVars,
          threw, last, ret>>

\* The value an operation returned: <<v>>, or <<>> when it returns nothing (a void
\* operation, or a call that raised).
NoRet == <<>>
Ret(v) == <<v>>

\* ------------------------------------------------------------- sequences
RECURSIVE Count(_, _)
Count(x, s) ==
    IF s = <<>> THEN 0
    ELSE (IF Head(s) = x THEN 1 ELSE 0) + Count(x, Tail(s))

Contains(s, x) == \E i \in 1..Len(s) : s[i] = x

\* vector::erase(it) at 1-based position i
Erase(s, i) == SubSeq(s, 1, i - 1) \o SubSeq(s, i + 1, Len(s))

RECURSIVE SumLen(_, _)
SumLen(f, S) ==
    IF S = {} THEN 0
    ELSE LET x == CHOOSE y \in S : TRUE
         IN  Len(f[x]) + SumLen(f, S \ {x})

\* ------------------------------------------------------------ weak links
\* edge.lock(): non-null iff the edge object is still owned by somebody.
lock(e) == edgeAlive[e]

\* MKLDNNEdge::getParent / getChild: the locked weak node pointer.
getParent(e) == IF nodeAlive[edgeParent[e]] THEN edgeParent[e] ELSE Null
getChild(e) == IF nodeAlive[edgeChild[e]] THEN edgeChild[e] ELSE Null

\* The two early returns shared by addEdge and removeEdge.
EdgeUsable(e) == lock(e) /\ getParent(e) # Null /\ getChild(e) # Null

\* ---------------------------------------------------------------- addEdge
\* parentPtr->childEdges.push_back(edge)
PushChildEdgeMutantFront(ce, e) == <<e>> \o ce
PushChildEdge(ce, e) == Append(ce, e)

\* childPtr->parentEdges.push_back(edge)
PushParentEdge(pe, e) == Append(pe, e)

\* The edge lists (a record pe, ce of the two per-node functions) after addEdge(e).
addEdgeMutantNoCheck(L, e) ==
    [pe |-> [L.pe EXCEPT ![edgeChild[e]] = PushParentEdge(@, e)],
     ce |-> [L.ce EXCEPT ![edgeParent[e]] = PushChildEdge(@, e)]]
addEdge(L, e) ==
    IF ~EdgeUsable(e) THEN L
    ELSE [pe |-> [L.pe EXCEPT ![getChild(e)] = PushParentEdge(@, e)],
          ce |-> [L.ce EXCEPT ![getParent(e)] = PushChildEdge(@, e)]]

\* ------------------------------------------------------------- removeEdge
\* The loop condition of both scans: a live entry joining the same endpoints.
MatchesEndpoints(x, p, c) == lock(x) /\ getChild(x) = c /\ getParent(x) = p

\* for (it = begin; it != end; it++) if (match) { erase(it); break; }
EraseAllMatches(s, p, c) == SelectSeq(s, LAMBDA x : ~MatchesEndpoints(x, p, c))
EraseFirstMatch(s, p, c) ==
    LET hits == {i \in 1..Len(s) : MatchesEndpoints(s[i], p, c)}
    IN  IF hits = {} THEN s
        ELSE Erase(s, CHOOSE i \in hits : \A j \in hits : i <= j)

removeEdgeMutantOneSide(L, e) ==
    IF ~EdgeUsable(e) THEN L
    ELSE [pe |-> [L.pe EXCEPT ![getChild(e)] = EraseFirstMatch(@, getParent(e), getChild(e))],
          ce |-> L.ce]
removeEdge(L, e) ==
    IF ~EdgeUsable(e) THEN L
    ELSE LET p == getParent(e)
             c == getChild(e)
         IN  [pe |-> [L.pe EXCEPT ![c] = EraseFirstMatch(@, p, c)],
              ce |-> [L.ce EXCEPT ![p] = EraseFirstMatch(@, p, c)]]

\* ----------------------------------------------------------------- remove
\* for (const auto &edge : snapshot) removeEdge(edge);
RECURSIVE RemoveEach(_, _)
RemoveEach(L, snapshot) ==
    IF snapshot = <<>> THEN L
    ELSE RemoveEach(removeEdge(L, Head(snapshot)), Tail(snapshot))

removeMutantParentsOnly(L, n) == RemoveEach(L, L.pe[n])
remove(L, n) ==
    LET afterParents == RemoveEach(L, L.pe[n])
    IN  RemoveEach(afterParents, afterParents.ce[n])

\* ================================================================ actions
Lists == [pe |-> parentEdges, ce |-> childEdges]

SetLists(L) == /\ parentEdges' = L.pe
               /\ childEdges' = L.ce

\* last.k is a history value read by reachability witnesses only: for removeEdge the
\* number of entries matching the edge's endpoints before the call, for remove the
\* largest number of entries joining the node to one neighbour before the call.
Op(name, e, n, k) == [op |-> name, e |-> e, n |-> n, k |-> k]

EndpointMatchCount(e) ==
    IF ~EdgeUsable(e) THEN 0
    ELSE Cardinality({i \in 1..Len(parentEdges[getChild(e)]) :
                        MatchesEndpoints(parentEdges[getChild(e)][i], getParent(e), getChild(e))})

NeighbourMultiplicity(n) ==
    LET up(m) == Cardinality({i \in 1..Len(parentEdges[n]) : edgeParent[parentEdges[n][i]] = m})
        down(m) == Cardinality({i \in 1..Len(childEdges[n]) : edgeChild[childEdges[n][i]] = m})
        all == {up(m) : m \in Nodes} \cup {down(m) : m \in Nodes}
    IN  CHOOSE k \in all : \A j \in all : j <= k

Static == /\ UNCHANGED <<edgeParent, edgeChild, edgePort>>
          /\ UNCHANGED <<selectVars, constVars, cacheVars, filterVars, batchVars, planVars>>
          /\ threw' = FALSE
          /\ ret' = NoRet

AddEdge(e) ==
    /\ SumLen(childEdges, Nodes) < MaxEntries
    /\ SetLists(addEdge(Lists, e))
    /\ last' = Op("addEdge", e, Null, 0)
    /\ Static
    /\ UNCHANGED <<nodeAlive, edgeAlive>>

RemoveEdge(e) ==
    /\ SetLists(removeEdge(Lists, e))
    /\ last' = Op("removeEdge", e, Null, EndpointMatchCount(e))
    /\ Static
    /\ UNCHANGED <<nodeAlive, edgeAlive>>

Remove(n) ==
    /\ nodeAlive[n]
    /\ SetLists(remove(Lists, n))
    /\ last' = Op("remove", 0, n, NeighbourMultiplicity(n))
    /\ Static
    /\ UNCHANGED <<nodeAlive, edgeAlive>>

Gone == Cardinality({n \in Nodes : ~nodeAlive[n]}) + Cardinality({e \in Edges : ~edgeAlive[e]})

\* The last owner of an edge lets go of it: every weak pointer to it expires.
DestroyEdge(e) ==
    /\ edgeAlive[e]
    /\ Gone < MaxGone
    /\ edgeAlive' = [edgeAlive EXCEPT ![e] = FALSE]
    /\ last' = Op("destroyEdge", e, Null, 0)
    /\ Static
    /\ UNCHANGED <<nodeAlive, parentEdges, childEdges>>

\* A node is destroyed: its edge lists go with it, the edges' weak node pointers expire.
DestroyNode(n) ==
    /\ nodeAlive[n]
    /\ Gone < MaxGone
    /\ nodeAlive' = [nodeAlive EXCEPT ![n] = FALSE]
    /\ parentEdges' = [parentEdges EXCEPT ![n] = <<>>]
    /\ childEdges' = [childEdges EXCEPT ![n] = <<>>]
    /\ last' = Op("destroyNode", 0, n, 0)
    /\ Static
    /\ UNCHANGED edgeAlive

\* The state of a freshly constructed node and edge in the parts of the state that
\* an operation sequence does not exercise.
\* No isConstant call is in progress.
NoWalk == [at |-> "idle", n |-> Null, look |-> "LOOK_DOWN", checkNodes |-> <<>>]

ConstIdle ==
    /\ walk = NoWalk
    /\ stack = <<>>
    /\ constant = [n \in Nodes |-> "Unknown"]
    /\ nodeType = [n \in Nodes |-> "Generic"]
    /\ edgeDims = [e \in Edges |-> <<1>>]

CacheIdle ==
    /\ nodeName = [n \in Nodes |-> "w"]
    /\ internalBlobs = [n \in Nodes |-> <<>>]
    /\ internalBlobMemory = [n \in Nodes |-> <<>>]
    /\ cacheOf = [n \in Nodes |-> "shared"]
    /\ weightCache = <<>>
    /\ buffers = <<>>
    /\ pc = [n \in Nodes |-> [at |-> "idle", i |-> 0, ptr |-> Null, calls |-> 0]]
    /\ guard = Null

FilterIdle ==
    /\ inputMemoryFormatsFilter = [n \in Nodes |-> <<>>]
    /\ outputMemoryFormatsFilter = [n \in Nodes |-> <<>>]

BatchIdle ==
    /\ dynBatchLim = [n \in Nodes |-> 0]
    /\ inDims = [n \in Nodes |-> <<>>]
    /\ outDims = [n \in Nodes |-> <<>>]
    /\ primArgs = [n \in Nodes |-> <<>>]

\* No descriptor templates; the edges are not yet part of a memory plan.
PlanIdle ==
    /\ descs = [n \in Nodes |-> <<>>]
    /\ edgeStatus = [e \in Edges |-> "Uninitialized"]
    /\ edgeMemory = [e \in Edges |-> Null]
    /\ edgeChildPort = [e \in Edges |-> 0]
    /\ outOfBounds = FALSE

\* Edge identities are interchangeable, so edges are numbered in the order of
\* their (parent, child) pair.
PairRank(e) == edgeParent[e] * (Cardinality(Nodes) + 1) + edgeChild[e]

\* The graph is built from a network of layers: every edge goes from a producer to
\* a consumer, and nodes are numbered in a topological order.
Topology ==
    /\ edgeParent \in [Edges -> Nodes]
    /\ edgeChild \in [Edges -> Nodes]
    /\ \A e \in Edges : edgeParent[e] < edgeChild[e]
    /\ \A e \in Edges : e + 1 \in Edges => PairRank(e) <= PairRank(e + 1)

Init ==
    /\ Topology
    /\ nodeAlive = [n \in Nodes |-> TRUE]
    /\ edgeAlive = [e \in Edges |-> TRUE]
    /\ parentEdges = [n \in Nodes |-> <<>>]
    /\ childEdges = [n \in Nodes |-> <<>>]
    /\ edgePort = [e \in Edges |-> 0]
    /\ supportedPrimitiveDescriptors = [n \in Nodes |-> <<>>]
    /\ selectedPrimitiveDescriptorIndex = [n \in Nodes |-> -1]
    /\ implPriorities = [n \in Nodes |-> <<>>]
    /\ ConstIdle /\ CacheIdle /\ FilterIdle /\ BatchIdle /\ PlanIdle
    /\ threw = FALSE
    /\ last = Op("init", 0, Null, 0)
    /\ ret = NoRet

Next ==
    \/ \E e \in Edges : AddEdge(e)
    \/ \E e \in Edges : RemoveEdge(e)
    \/ \E n \in Nodes : Remove(n)
    \/ \E e \in Edges : DestroyEdge(e)
    \/ \E n \in Nodes : DestroyNode(n)

Spec == Init /\ [][Next]_vars

\* ===================================================== descriptor selection
\* At most MaxDescs enumerated descriptors on the node under selection.
MaxDescs == 2

\* impl_desc_type values: the default priority order of getPrimitivesPriority, and
\* "undef", a type that is in no priority list.
DefaultPriorities ==
    <<"unknown", "jit_uni_dw", "jit_uni_1x1", "jit_uni", "jit_avx512_dw", "jit_avx512_1x1",
      "jit_avx512", "jit_avx2_dw", "jit_avx2_1x1", "jit_avx2", "jit_avx_dw", "jit_avx_1x1",
      "jit_avx", "jit_sse42_dw", "jit_sse42_1x1", "jit_sse42", "gemm_any", "gemm_blas",
      "gemm_avx512", "gemm_avx2", "gemm_avx", "gemm_sse42", "jit_gemm", "ref_any", "ref">>

\* A PrimitiveDescInfo: implementation type and the input and output port configs.
Desc(type, ins, outs) == [implType |-> type, inConfs |-> ins, outConfs |-> outs]

\* A DataConfig: the in-place index, the constant flag and the tensor descriptor of
\* one port.
DataConfig(inPlace, isConst, desc) == [inPlace |-> inPlace, constant |-> isConst, desc |-> desc]

\* Port configs over the given tensor descriptors, not in-place and not constant.
Confs(tds) == [i \in DOMAIN tds |-> DataConfig(-1, FALSE, tds[i])]

\* The null PrimitiveDescInfo pointer.
NoDesc == Desc("none", <<>>, <<>>)

getSupportedPrimitiveDescriptors(n) == supportedPrimitiveDescriptors[n]

\* getSelectedPrimitiveDescriptor(): null unless the selected index is in range.
getSelectedPrimitiveDescriptor(n) ==
    LET i == selectedPrimitiveDescriptorIndex[n]
    IN  IF i < 0 \/ i >= Len(supportedPrimitiveDescriptors[n]) THEN NoDesc
        ELSE supportedPrimitiveDescriptors[n][i + 1]

\* MKLDNNEdge::getInputNum(): the recorded output port of the parent.
getInputNum(e) == edgePort[e]

\* The InferenceEngine::TensorDesc of a port: precision, dims, the blocked format
\* (block dims and order; "ANY" for Layout::ANY), and whether its offsets and strides
\* are defined.
PortDesc(precision, dims, format, init) ==
    [precision |-> precision, dims |-> dims, format |-> format, init |-> init]

\* MKLDNNExtensionUtils::initTensorsAreEqual on two port descriptors: the same dims
\* and precision, and the same blocked format unless one of them is Layout::ANY;
\* undefined offsets and strides match any.
initTensorsAreEqual(a, b) ==
    /\ a.dims = b.dims
    /\ a.precision = b.precision
    /\ (a.format = "ANY" \/ b.format = "ANY" \/ a.format = b.format)

\* getParentEdgeAt(idx) raises on an index past the list or on an expired entry.
ParentEdgeAtThrows(n, idx) == idx >= Len(parentEdges[n]) \/ ~lock(parentEdges[n][idx + 1])
getParentEdgeAt(n, idx) == parentEdges[n][idx + 1]

\* The clamp of the port index read through the edge (inNum).
ClampPort(inNum, size) == IF inNum < 0 \/ inNum >= size THEN 0 ELSE inNum

\* Body of the j loop: whether input port j of descriptor d matches the parent's
\* selected output layout.
InputMatchesParent(n, d, j) ==
    LET parentEdge == getParentEdgeAt(n, j)
        parent_spd == getSelectedPrimitiveDescriptor(getParent(parentEdge))
    IN  /\ parent_spd # NoDesc
        /\ parent_spd.outConfs # <<>>
        /\ LET inNum == ClampPort(getInputNum(parentEdge), Len(parent_spd.outConfs))
           IN  initTensorsAreEqual(d.inConfs[j + 1].desc, parent_spd.outConfs[inNum + 1].desc)

\* for (j = 0; j < inConfs.size(); j++) ... equalsLocalFormatCount++
RECURSIVE EqualsLocalFormatCount(_, _, _)
EqualsLocalFormatCount(n, d, j) ==
    IF j >= Len(d.inConfs) THEN 0
    ELSE (IF InputMatchesParent(n, d, j) THEN 1 ELSE 0) + EqualsLocalFormatCount(n, d, j + 1)

\* The result of a scan that was cut short by an exception.
Thrown == -2

\* for (i = 0; i < descriptors.size(); i++) of one priority tier, from index i on
\* with the running selectedPrimitive and equalsFormatCount.
RECURSIVE ScanDescriptorsMutantLastTie(_, _, _, _, _)
ScanDescriptorsMutantLastTie(n, type, i, selectedPrimitive, equalsFormatCount) ==
    IF i >= Len(getSupportedPrimitiveDescriptors(n)) THEN selectedPrimitive
    ELSE LET d == getSupportedPrimitiveDescriptors(n)[i + 1]
         IN  IF type # d.implType \/ Len(d.inConfs) > Len(parentEdges[n])
             THEN ScanDescriptorsMutantLastTie(n, type, i + 1, selectedPrimitive, equalsFormatCount)
             ELSE IF \E j \in 0..(Len(d.inConfs) - 1) : ParentEdgeAtThrows(n, j)
             THEN Thrown
             ELSE LET equalsLocalFormatCount == EqualsLocalFormatCount(n, d, 0)
                  IN  IF equalsLocalFormatCount >= equalsFormatCount
                      THEN ScanDescriptorsMutantLastTie(n, type, i + 1, i, equalsLocalFormatCount)
                      ELSE ScanDescriptorsMutantLastTie(n, type, i + 1, selectedPrimitive, equalsFormatCount)

RECURSIVE ScanDescriptors(_, _, _, _, _)
ScanDescriptors(n, type, i, selectedPrimitive, equalsFormatCount) ==
    IF i >= Len(getSupportedPrimitiveDescriptors(n)) THEN selectedPrimitive
    ELSE LET d == getSupportedPrimitiveDescriptors(n)[i + 1]
         IN  IF type # d.implType \/ Len(d.inConfs) > Len(parentEdges[n])
             THEN ScanDescriptors(n, type, i + 1, selectedPrimitive, equalsFormatCount)
             ELSE IF \E j \in 0..(Len(d.inConfs) - 1) : ParentEdgeAtThrows(n, j)
             THEN Thrown
             ELSE LET equalsLocalFormatCount == EqualsLocalFormatCount(n, d, 0)
                  IN  IF equalsLocalFormatCount > equalsFormatCount
                      THEN ScanDescriptors(n, type, i + 1, i, equalsLocalFormatCount)
                      ELSE ScanDescriptors(n, type, i + 1, selectedPrimitive, equalsFormatCount)

\* for (auto& type : priority), from tier t (1-based) on: the first tier with a
\* candidate returns it; -1 when the list runs out.
RECURSIVE ScanPriorityMutantLastTier(_, _, _)
ScanPriorityMutantLastTier(n, priority, t) ==
    IF t > Len(priority) THEN -1
    ELSE LET later == ScanPriorityMutantLastTier(n, priority, t + 1)
             selectedPrimitive == ScanDescriptors(n, priority[t], 0, -1, -1)
         IN  IF later # -1 THEN later ELSE selectedPrimitive

RECURSIVE ScanPriority(_, _, _)
ScanPriority(n, priority, t) ==
    IF t > Len(priority) THEN -1
    ELSE LET selectedPrimitive == ScanDescriptors(n, priority[t], 0, -1, -1)
         IN  IF selectedPrimitive = Thrown THEN Thrown
             ELSE IF selectedPrimitive >= 0 THEN selectedPrimitive
             ELSE ScanPriority(n, priority, t + 1)

\* selectPrimitiveDescriptorByIndex(index)
selectPrimitiveDescriptorByIndex(n, index) ==
    IF index < 0 \/ index >= Len(supportedPrimitiveDescriptors[n]) THEN -1 ELSE index

\* selectPreferPrimitiveDescriptor(priority): whether it raised, and the selected
\* index it leaves.
SelectResult(t, i) == [threw |-> t, index |-> i]

selectPreferMutantFallbackLast(n, priority) ==
    LET selectedPrimitive == ScanPriority(n, priority, 1)
    IN  IF selectedPrimitive >= 0
        THEN SelectResult(FALSE, selectPrimitiveDescriptorByIndex(n, selectedPrimitive))
        ELSE SelectResult(FALSE, Len(getSupportedPrimitiveDescriptors(n)) - 1)
selectPreferPrimitiveDescriptor(n, priority) ==
    LET selectedPrimitive == ScanPriority(n, priority, 1)
    IN  IF selectedPrimitive = Thrown
        THEN SelectResult(TRUE, selectedPrimitiveDescriptorIndex[n])
        ELSE IF selectedPrimitive >= 0
        THEN SelectResult(FALSE, selectPrimitiveDescriptorByIndex(n, selectedPrimitive))
        ELSE IF getSupportedPrimitiveDescriptors(n) = <<>>
        THEN SelectResult(TRUE, selectedPrimitiveDescriptorIndex[n])
        ELSE SelectResult(FALSE, selectPrimitiveDescriptorByIndex(n, 0))

\* getPrimitivesPriority(): the stored list with every default priority that is not
\* yet in it appended, in default order; the result is stored and returned.
AppendMissingMutantAll(stored, defaults) == stored \o defaults
RECURSIVE AppendMissing(_, _)
AppendMissing(stored, defaults) ==
    IF defaults = <<>> THEN stored
    ELSE AppendMissing(IF Contains(stored, Head(defaults)) THEN stored
                       ELSE Append(stored, Head(defaults)),
                       Tail(defaults))

getPrimitivesPriority(n) == AppendMissing(implPriorities[n], DefaultPriorities)

\* The list selectOptimalPrimitiveDescriptor hands to selectPreferPrimitiveDescriptor.
PriorityForSelectionMutantStale(n) == implPriorities[n]
PriorityForSelection(n) == getPrimitivesPriority(n)

\* ------------------------------------------------------- selection actions
\* The number of identical selection calls in a row ending with this one (1 or 2+).
Repeat(name, n, k) ==
    IF last.op = name /\ last.n = n /\ last.k = k THEN 2 ELSE 1

SelOp(name, n, k) == [op |-> name, e |-> Repeat(name, n, k), n |-> n, k |-> k]

\* Selection reads the parents through every linked parent edge: they must exist.
ParentsAlive(n) == \A i \in 1..Len(parentEdges[n]) : getParent(parentEdges[n][i]) # Null

SelectOptimalPrimitiveDescriptor(n) ==
    /\ nodeAlive[n]
    /\ ParentsAlive(n)
    /\ \E stored \in {getPrimitivesPriority(n)} :
        /\ \E r \in {selectPreferPrimitiveDescriptor(n, PriorityForSelection(n))} :
            /\ selectedPrimitiveDescriptorIndex' =
                    [selectedPrimitiveDescriptorIndex EXCEPT ![n] = r.index]
            /\ threw' = r.threw
        /\ implPriorities' = [implPriorities EXCEPT ![n] = stored]
        /\ last' = SelOp("selectOptimal", n, stored)
    /\ ret' = NoRet
    /\ UNCHANGED <<graphVars, supportedPrimitiveDescriptors>>
    /\ UNCHANGED <<constVars, cacheVars, filterVars, batchVars, planVars>>

\* Priority lists handed to selectPreferPrimitiveDescriptor directly.
PriorityInputs == {<<"ref", "jit_avx2">>}

SelectPreferPrimitiveDescriptor(n, priority) ==
    /\ nodeAlive[n]
    /\ ParentsAlive(n)
    /\ \E r \in {selectPreferPrimitiveDescriptor(n, priority)} :
        /\ selectedPrimitiveDescriptorIndex' =
                [selectedPrimitiveDescriptorIndex EXCEPT ![n] = r.index]
        /\ threw' = r.threw
    /\ last' = SelOp("selectPrefer", n, priority)
    /\ ret' = NoRet
    /\ UNCHANGED <<graphVars, supportedPrimitiveDescriptors, implPriorities>>
    /\ UNCHANGED <<constVars, cacheVars, filterVars, batchVars, planVars>>

\* ---------------------------------------------------- selection: the inputs
Layouts == {"L1", "L2"}
ImplTypes == {"jit_avx2", "ref", "undef"}

\* Input configs of a candidate descriptor: one or two ports.
InConfChoices == {<<"L1">>, <<"L1", "L2">>}

\* Fully defined FP32 port descriptors of one shape in the given formats.
Dense(formats) == [i \in DOMAIN formats |-> PortDesc("FP32", <<2, 3>>, formats[i], TRUE)]

DescPool ==
    {Desc(t, Confs(Dense(ins)), Confs(Dense(<<"L1">>))) : t \in ImplTypes, ins \in InConfChoices}

RECURSIVE SeqsUpTo(_, _)
SeqsUpTo(S, k) ==
    IF k = 0 THEN {<<>>}
    ELSE LET shorter == SeqsUpTo(S, k - 1)
         IN  shorter \cup {Append(s, x) : s \in {q \in shorter : Len(q) = k - 1}, x \in S}

\* The two producers, and the node under selection that they feed.
Producers == {1, 2}
Target == CHOOSE n \in Nodes : n \notin Producers

\* The state in which the node under selection is reached: the graph is built (the
\* first m edges were added with addEdge, in order; the other edges are not linked),
\* producer 1 has two output ports and its descriptor selected, producer 2 has one
\* output port and has not been processed yet.
InitSelect ==
    /\ edgeChild = [e \in Edges |-> Target]
    /\ \E m \in 0..2 :
        /\ edgeParent \in [Edges -> Producers]
        /\ edgePort \in [Edges -> {0, 1}]
        /\ \A e \in Edges : e > m => (edgeParent[e] = 1 /\ edgePort[e] = 0)
        /\ \A e \in Edges : edgeParent[e] # 1 => edgePort[e] = 0
        /\ parentEdges = [n \in Nodes |-> IF n = Target THEN [i \in 1..m |-> i] ELSE <<>>]
        /\ childEdges = [n \in Nodes |->
                            SelectSeq([i \in 1..m |-> i], LAMBDA e : edgeParent[e] = n)]
    /\ nodeAlive = [n \in Nodes |-> TRUE]
    /\ edgeAlive = [e \in Edges |-> TRUE]
    /\ \E ds \in SeqsUpTo(DescPool, MaxDescs) :
        supportedPrimitiveDescriptors =
            [n \in Nodes |-> IF n = Target THEN ds
                             ELSE IF n = 1 THEN <<Desc("ref", <<>>, Confs(Dense(<<"L1", "L2">>)))>>
                             ELSE <<Desc("ref", <<>>, Confs(Dense(<<"L2">>)))>>]
    /\ selectedPrimitiveDescriptorIndex = [n \in Nodes |-> IF n = 1 THEN 0 ELSE -1]
    /\ \E configured \in {<<>>, <<"ref">>} :
        implPriorities = [n \in Nodes |-> IF n = Target THEN configured ELSE <<>>]
    /\ ConstIdle /\ CacheIdle /\ FilterIdle /\ BatchIdle /\ PlanIdle
    /\ threw = FALSE
    /\ last = Op("init", 0, Null, 0)
    /\ ret = NoRet

NextSelect ==
    \/ SelectOptimalPrimitiveDescriptor(Target)
    \/ \E priority \in PriorityInputs : SelectPreferPrimitiveDescriptor(Target, priority)

SpecSelect == InitSelect /\ [][NextSelect]_vars

\* ================================================= constant classification
\* ConstantType: "Unknown", "Const", "NoConst".
\* The nodes behind the child edges (LOOK_DOWN) or the parent edges (LOOK_UP) of a
\* node, in list order.
ChildNodes(n) == [i \in 1..Len(childEdges[n]) |-> getChild(childEdges[n][i])]
ParentNodes(n) == [i \in 1..Len(parentEdges[n]) |-> getParent(parentEdges[n][i])]
Neighbours(look, n) == IF look = "LOOK_DOWN" THEN ChildNodes(n) ELSE ParentNodes(n)

\* if (std::find(checkNodes, x) == end) checkNodes.push_back(x), for each x in order
RECURSIVE PushMissing(_, _)
PushMissing(checkNodes, xs) ==
    IF xs = <<>> THEN checkNodes
    ELSE PushMissing(IF Contains(checkNodes, Head(xs)) THEN checkNodes
                     ELSE Append(checkNodes, Head(xs)),
                     Tail(xs))

\* m.checkConstant(look, checkNodes) under the classification C: the classification
\* of m, and the work list with m's neighbours pushed when m is unclassified.
checkConstant(C, m, look, checkNodes) ==
    [constant |-> C[m],
     checkNodes |-> IF C[m] = "Unknown" THEN PushMissing(checkNodes, Neighbours(look, m))
                    ELSE checkNodes]

\* while (constant != NoConst && !checkNodes.empty()) {
\*     constant = checkNodes.front()->checkConstant(look, checkNodes);
\*     checkNodes.erase(checkNodes.begin()); }
\* run by node n; the result is the value the loop leaves in n.constant.
RECURSIVE CheckLoop(_, _, _, _)
CheckLoop(C, n, look, checkNodes) ==
    IF C[n] = "NoConst" \/ checkNodes = <<>> THEN C[n]
    ELSE LET r == checkConstant(C, Head(checkNodes), look, checkNodes)
         IN  CheckLoop([C EXCEPT ![n] = r.constant], n, look, Tail(r.checkNodes))

\* The classification of node n that the body of isConstant computes.
ClassifyMutantDownFinal(C, n) ==
    LET down == CheckLoop(C, n, "LOOK_DOWN", ChildNodes(n))
        up == IF down = "Unknown"
              THEN CheckLoop([C EXCEPT ![n] = "Unknown"], n, "LOOK_UP", ParentNodes(n))
              ELSE down
    IN  IF up = "Unknown" THEN "NoConst" ELSE up
Classify(C, n) ==
    LET down == CheckLoop(C, n, "LOOK_DOWN", ChildNodes(n))
        up == IF down # "Const"
              THEN CheckLoop([C EXCEPT ![n] = "Unknown"], n, "LOOK_UP", ParentNodes(n))
              ELSE down
    IN  IF up = "Unknown" THEN "NoConst" ELSE up

\* n.isConstant(): the classification of all nodes after the call.
isConstantMutantNoMemo(C, n) == [C EXCEPT ![n] = Classify([C EXCEPT ![n] = "Unknown"], n)]
isConstant(C, n) ==
    IF C[n] # "Unknown" THEN C
    ELSE [C EXCEPT ![n] = Classify(C, n)]

\* last.k of an isConstant step: the classification of the node before the call.
IsConstant(n) ==
    /\ nodeAlive[n]
    /\ constant' = isConstant(constant, n)
    /\ ret' = Ret(constant'[n] = "Const")
    /\ threw' = FALSE
    /\ last' = Op("isConstant", 0, n, constant[n])
    /\ UNCHANGED <<graphVars, selectVars, nodeType, edgeDims, walk, stack, cacheVars, filterVars, batchVars, planVars>>

\* The graph builder links every edge once.
Linked(e) == Contains(parentEdges[edgeChild[e]], e)
LinkEdge(e) == ~Linked(e) /\ AddEdge(e)

\* A node that no edge of the network feeds.
IsSource(n) == \A e \in Edges : edgeChild[e] # n

\* The nodes are constructed unclassified; an input node is classified at
\* construction (Const for constant data, NoConst otherwise) or not at all.
SourcesClassified ==
    /\ constant \in [Nodes -> {"Unknown", "Const", "NoConst"}]
    /\ \A n \in Nodes : ~IsSource(n) => constant[n] = "Unknown"

InitConst ==
    /\ Topology
    /\ nodeAlive = [n \in Nodes |-> TRUE]
    /\ edgeAlive = [e \in Edges |-> TRUE]
    /\ parentEdges = [n \in Nodes |-> <<>>]
    /\ childEdges = [n \in Nodes |-> <<>>]
    /\ edgePort = [e \in Edges |-> 0]
    /\ supportedPrimitiveDescriptors = [n \in Nodes |-> <<>>]
    /\ selectedPrimitiveDescriptorIndex = [n \in Nodes |-> -1]
    /\ implPriorities = [n \in Nodes |-> <<>>]
    /\ SourcesClassified
    /\ walk = NoWalk
    /\ stack = <<>>
    /\ nodeType = [n \in Nodes |-> "Generic"]
    /\ edgeDims = [e \in Edges |-> <<1>>]
    /\ CacheIdle /\ FilterIdle /\ BatchIdle /\ PlanIdle
    /\ threw = FALSE
    /\ last = Op("init", 0, Null, 0)
    /\ ret = NoRet

NextConst ==
    \/ \E e \in Edges : LinkEdge(e)
    \/ \E n \in Nodes : IsConstant(n)

SpecConst == InitConst /\ [][NextConst]_vars

\* ------------------------------------------------ getPrimitivesPriority alone
\* n.getPrimitivesPriority(): the merged list is stored in implPriorities and
\* returned; last.k is the stored list before the call.
GetPrimitivesPriority(n) ==
    /\ nodeAlive[n]
    /\ implPriorities' = [implPriorities EXCEPT ![n] = getPrimitivesPriority(n)]
    /\ ret' = Ret(implPriorities'[n])
    /\ threw' = FALSE
    /\ last' = Op("getPrimitivesPriority", 0, n, implPriorities[n])
    /\ UNCHANGED <<graphVars, supportedPrimitiveDescriptors, selectedPrimitiveDescriptorIndex>>
    /\ UNCHANGED <<constVars, cacheVars, filterVars, batchVars, planVars>>

\* The longest configured priority list.
MaxConfigured == 2

\* What the constructor can have stored: implementation types in any order, with
\* repetitions.
ConfiguredTypes == {"ref", "jit_avx2", "unknown"}

InitPriority ==
    /\ Topology
    /\ nodeAlive = [n \in Nodes |-> TRUE]
    /\ edgeAlive = [e \in Edges |-> TRUE]
    /\ parentEdges = [n \in Nodes |-> <<>>]
    /\ childEdges = [n \in Nodes |-> <<>>]
    /\ edgePort = [e \in Edges |-> 0]
    /\ supportedPrimitiveDescriptors = [n \in Nodes |-> <<>>]
    /\ selectedPrimitiveDescriptorIndex = [n \in Nodes |-> -1]
    /\ \E c1 \in SeqsUpTo(ConfiguredTypes, MaxConfigured), c2 \in {<<>>, <<"ref_any", "ref_any">>} :
        implPriorities = [n \in Nodes |-> IF n = 1 THEN c1 ELSE IF n = 2 THEN c2 ELSE <<>>]
    /\ ConstIdle /\ CacheIdle /\ FilterIdle /\ BatchIdle /\ PlanIdle
    /\ threw = FALSE
    /\ last = Op("init", 0, Null, 0)
    /\ ret = NoRet

NextPriority == \E n \in Nodes : GetPrimitivesPriority(n)

SpecPriority == InitPriority /\ [][NextPriority]_vars

\* ------------------------------------------- isConstant, one loop pass a step
\* The call in progress.
Walk(at, n, look, checkNodes) == [at |-> at, n |-> n, look |-> look, checkNodes |-> checkNodes]

WalkFrame ==
    /\ threw' = FALSE
    /\ UNCHANGED <<graphVars, selectVars, nodeType, edgeDims, stack, cacheVars, filterVars,
                   batchVars, planVars>>

\* n.isConstant() is entered: a classified node answers at once, an unclassified
\* one collects its children and starts the LOOK_DOWN loop.
EnterIsConstant(n) ==
    /\ walk.at = "idle"
    /\ nodeAlive[n]
    /\ IF constant[n] # "Unknown"
       THEN /\ walk' = Walk("done", n, "LOOK_DOWN", <<>>)
            /\ ret' = Ret(constant[n] = "Const")
       ELSE /\ walk' = Walk("loop", n, "LOOK_DOWN", ChildNodes(n))
            /\ ret' = NoRet
    /\ UNCHANGED constant
    /\ last' = Op("isConstant", 0, n, 0)
    /\ WalkFrame

\* One pass of while (constant != NoConst && !checkNodes.empty()):
\*     constant = checkNodes.front()->checkConstant(look, checkNodes);
\*     checkNodes.erase(checkNodes.begin());
CheckStep ==
    /\ walk.at = "loop"
    /\ constant[walk.n] # "NoConst" /\ walk.checkNodes # <<>>
    /\ \E r \in {checkConstant(constant, Head(walk.checkNodes), walk.look, walk.checkNodes)} :
        /\ constant' = [constant EXCEPT ![walk.n] = r.constant]
        /\ walk' = [walk EXCEPT !.checkNodes = Tail(r.checkNodes)]
    /\ ret' = NoRet
    /\ last' = Op("checkConstant", 0, Head(walk.checkNodes), 0)
    /\ WalkFrame

\* The LOOK_DOWN loop is over without Const: constant = Unknown, the parents are
\* collected and the LOOK_UP loop starts.
TurnUp ==
    /\ walk.at = "loop" /\ walk.look = "LOOK_DOWN"
    /\ constant[walk.n] = "NoConst" \/ walk.checkNodes = <<>>
    /\ constant[walk.n] # "Const"
    /\ constant' = [constant EXCEPT ![walk.n] = "Unknown"]
    /\ walk' = Walk("loop", walk.n, "LOOK_UP", ParentNodes(walk.n))
    /\ ret' = NoRet
    /\ last' = Op("lookUp", 0, walk.n, 0)
    /\ WalkFrame

\* The loops are over: Unknown becomes NoConst, and the call returns.
LeaveIsConstant ==
    /\ walk.at = "loop"
    /\ constant[walk.n] = "NoConst" \/ walk.checkNodes = <<>>
    /\ walk.look = "LOOK_DOWN" => constant[walk.n] = "Const"
    /\ constant' = [constant EXCEPT ![walk.n] = IF @ = "Unknown" THEN "NoConst" ELSE @]
    /\ walk' = [walk EXCEPT !.at = "done", !.checkNodes = <<>>]
    /\ ret' = Ret(constant'[walk.n] = "Const")
    /\ last' = Op("return", 0, walk.n, 0)
    /\ WalkFrame

\* Any graph over the nodes, cycles among them: every edge joins two different
\* nodes and is linked; each node is unclassified or was classified before.
InitWalk ==
    /\ edgeParent \in [Edges -> Nodes]
    /\ edgeChild \in [Edges -> Nodes]
    /\ \A e \in Edges : edgeParent[e] # edgeChild[e]
    /\ \A e \in Edges : e + 1 \in Edges => PairRank(e) <= PairRank(e + 1)
    /\ nodeAlive = [n \in Nodes |-> TRUE]
    /\ edgeAlive = [e \in Edges |-> TRUE]
    /\ parentEdges = [n \in Nodes |-> SelectSeq(<<1, 2, 3>>, LAMBDA e : edgeChild[e] = n)]
    /\ childEdges = [n \in Nodes |-> SelectSeq(<<1, 2, 3>>, LAMBDA e : edgeParent[e] = n)]
    /\ edgePort = [e \in Edges |-> 0]
    /\ supportedPrimitiveDescriptors = [n \in Nodes |-> <<>>]
    /\ selectedPrimitiveDescriptorIndex = [n \in Nodes |-> -1]
    /\ implPriorities = [n \in Nodes |-> <<>>]
    /\ constant \in [Nodes -> {"Unknown", "Const", "NoConst"}]
    /\ walk = NoWalk
    /\ stack = <<>>
    /\ nodeType = [n \in Nodes |-> "Generic"]
    /\ edgeDims = [e \in Edges |-> <<1>>]
    /\ CacheIdle /\ FilterIdle /\ BatchIdle /\ PlanIdle
    /\ threw = FALSE
    /\ last = Op("init", 0, Null, 0)
    /\ ret = NoRet

NextWalk ==
    \/ \E n \in Nodes : EnterIsConstant(n)
    \/ CheckStep
    \/ TurnUp
    \/ LeaveIsConstant

\* The thread that made the call keeps running it.
SpecWalk == InitWalk /\ [][NextWalk]_vars /\ WF_vars(NextWalk)

\* ===================================================== in-place eligibility
\* getChildEdgeAt(idx) raises on an index past the list or on an expired entry.
ChildEdgeAtThrows(n, idx) == idx >= Len(childEdges[n]) \/ ~lock(childEdges[n][idx + 1])
getChildEdgeAt(n, idx) == childEdges[n][idx + 1]

\* MKLDNNEdge::getDims()
getDims(e) == edgeDims[e]

\* The outcome of a call that returns a value, may raise, and may classify nodes on
\* the way (isConstant memoizes).
Outcome(r, t, C) == [ret |-> r, threw |-> t, constant |-> C]

\* for (cIdx = 0; cIdx < getChildEdges().size(); cIdx++)
\*     if (getChildEdgeAt(cIdx)->getDims() != dims) return false;
\* return true;
\* from child edge cIdx on, under the classification C.
RECURSIVE ChildDimsLoop(_, _, _, _)
ChildDimsLoop(n, dims, cIdx, C) ==
    IF cIdx >= Len(childEdges[n]) THEN Outcome(Ret(TRUE), FALSE, C)
    ELSE IF ChildEdgeAtThrows(n, cIdx) THEN Outcome(NoRet, TRUE, C)
    ELSE IF getDims(getChildEdgeAt(n, cIdx)) # dims THEN Outcome(Ret(FALSE), FALSE, C)
    ELSE ChildDimsLoop(n, dims, cIdx + 1, C)

\* The part of canBeInPlace after the first test, under the classification C the
\* first test left.
InPlaceTailMutantNoReshape(n, C) == ChildDimsLoop(n, getDims(getParentEdgeAt(n, 0)), 0, C)
InPlaceTail(n, C) ==
    LET reshapeNode == getParent(getParentEdgeAt(n, 0))
    IN  IF nodeType[reshapeNode] = "Reshape" /\ ParentEdgeAtThrows(reshapeNode, 0)
        THEN Outcome(NoRet, TRUE, C)
        ELSE IF /\ nodeType[reshapeNode] = "Reshape"
                /\ Len(childEdges[getParent(getParentEdgeAt(reshapeNode, 0))]) # 1
        THEN Outcome(Ret(FALSE), FALSE, C)
        ELSE ChildDimsLoop(n, getDims(getParentEdgeAt(n, 0)), 0, C)

\* parent->isConstant() && !child->isConstant(), evaluated left to right with the
\* short circuit: the verdict and the classification the calls leave.
ConstIntoNonConstMutantParentOnly(C, parent, child) ==
    LET C1 == isConstant(C, parent)
    IN  [hit |-> C1[parent] = "Const", constant |-> C1]
ConstIntoNonConst(C, parent, child) ==
    LET C1 == isConstant(C, parent)
    IN  IF C1[parent] # "Const" THEN [hit |-> FALSE, constant |-> C1]
        ELSE LET C2 == isConstant(C1, child)
             IN  [hit |-> C2[child] # "Const", constant |-> C2]

\* n.canBeInPlace() under the classification C that earlier calls left.
\* canBeInPlace() from the test "parent constant, node not" on, c being what the
\* test found.
InPlaceAfterConst(n, c) ==
    IF c.hit THEN Outcome(Ret(FALSE), FALSE, c.constant)
    ELSE InPlaceTail(n, c.constant)

canBeInPlaceUnder(C, n) ==
    IF Len(parentEdges[n]) # 1 THEN Outcome(Ret(FALSE), FALSE, C)
    ELSE IF ParentEdgeAtThrows(n, 0) THEN Outcome(NoRet, TRUE, C)
    ELSE IF Len(childEdges[getParent(getParentEdgeAt(n, 0))]) # 1
    THEN Outcome(Ret(FALSE), FALSE, C)
    ELSE InPlaceAfterConst(n, ConstIntoNonConst(C, getParent(getParentEdgeAt(n, 0)),
                                                getChild(getParentEdgeAt(n, 0))))

\* n.canBeInPlace()
canBeInPlace(n) == canBeInPlaceUnder(constant, n)

\* canBeInPlace dereferences the parent of its parent edge (and, behind a Reshape,
\* the parent of the Reshape's first parent edge): the call is made on a graph
\* whose nodes exist.
CanBeInPlace(n) ==
    /\ nodeAlive[n]
    /\ \A m \in Nodes : ParentsAlive(m)
    /\ \E r \in {canBeInPlace(n)} :
        /\ ret' = r.ret
        /\ threw' = r.threw
        /\ constant' = r.constant
    /\ last' = Op("canBeInPlace", 0, n, 0)
    /\ UNCHANGED <<graphVars, selectVars, nodeType, edgeDims, walk, stack, cacheVars, filterVars, batchVars, planVars>>

\* Shapes of the tensors on the edges.
DimsChoices == {<<2, 3>>, <<2, 4>>}
NodeTypes == {"Generic", "Reshape"}

InitInPlace ==
    /\ Topology
    /\ nodeAlive = [n \in Nodes |-> TRUE]
    /\ edgeAlive = [e \in Edges |-> TRUE]
    /\ parentEdges = [n \in Nodes |-> <<>>]
    /\ childEdges = [n \in Nodes |-> <<>>]
    /\ edgePort = [e \in Edges |-> 0]
    /\ supportedPrimitiveDescriptors = [n \in Nodes |-> <<>>]
    /\ selectedPrimitiveDescriptorIndex = [n \in Nodes |-> -1]
    /\ implPriorities = [n \in Nodes |-> <<>>]
    /\ SourcesClassified
    /\ walk = NoWalk
    /\ stack = <<>>
    /\ nodeType \in [Nodes -> NodeTypes]
    /\ \A n \in Nodes : nodeType[n] = "Reshape" => ~IsSource(n)
    /\ edgeDims \in [Edges -> DimsChoices]
    /\ CacheIdle /\ FilterIdle /\ BatchIdle /\ PlanIdle
    /\ threw = FALSE
    /\ last = Op("init", 0, Null, 0)
    /\ ret = NoRet

NextInPlace ==
    \/ \E e \in Edges : LinkEdge(e)
    \/ \E n \in Nodes : CanBeInPlace(n)

SpecInPlace == InitInPlace /\ [][NextInPlace]_vars

\* ============================================================ weight cache
\* At most MaxCalls prepareMemory calls per node.
MaxCalls == 2

\* A weight blob: its byte size and its bytes (a number stands for the content).
Blob(size, content) == [byteSize |-> size, content |-> content]

\* weightCache->GetHashFunc().hash(buffer, byteSize): a 64-bit digest of the bytes;
\* different contents can have the same digest.
HashMod == 2
hash(content, byteSize) == content % HashMod

\* string_hash = name + "_" + to_string(i) + "_" + to_string(byteSize) + "_" + to_string(data_hash)
string_hashMutantNoHash(n, i) ==
    nodeName[n] \o "_" \o ToString(i) \o "_" \o ToString(internalBlobs[n][i + 1].byteSize)
string_hash(n, i) ==
    nodeName[n] \o "_" \o ToString(i) \o "_" \o ToString(internalBlobs[n][i + 1].byteSize)
        \o "_" \o ToString(hash(internalBlobs[n][i + 1].content, internalBlobs[n][i + 1].byteSize))

\* if (weightCache != nullptr)
UsesCacheMutantNever(n) == FALSE
UsesCache(n) == cacheOf[n] # "null"

\* create(): a new buffer holding blob i of node n. A buffer is identified by its
\* position in buffers; the record keeps what it was built from.
create(n, i) ==
    [name |-> nodeName[n], index |-> i, blob |-> internalBlobs[n][i + 1],
     cacheOf |-> cacheOf[n]]

\* The position of node n's call after the step that ends blob i with buffer ptr:
\* internalBlobMemory.push_back(ptr) and the loop test.
AfterBlob(n, ptr) ==
    /\ internalBlobMemory' = [internalBlobMemory EXCEPT ![n] = Append(@, ptr)]
    /\ pc' = [pc EXCEPT ![n] = [@ EXCEPT !.at = IF pc[n].i + 1 < Len(internalBlobs[n])
                                                  THEN "blob" ELSE "done",
                                         !.i = pc[n].i + 1,
                                         !.ptr = Null]]

CacheFrame(name, n) ==
    /\ last' = Op(name, 0, n, pc[n].i)
    /\ ret' = NoRet
    /\ UNCHANGED <<graphVars, selectVars, constVars, filterVars, batchVars, planVars>>
    /\ UNCHANGED <<nodeName, internalBlobs, cacheOf>>

CacheStep(name, n) == threw' = FALSE /\ CacheFrame(name, n)

\* !memPtr || !memPtr->GetPrimitivePtr(): the edge holds no memory object, or one
\* whose primitive was never created; either way there is no data behind it.
MemoryAbsent(e) == edgeMemory[e].data = Null

\* The loop over the child edges and the loop over the parent edges raise.
DstMissing(n) ==
    \E i \in 0..(Len(childEdges[n]) - 1) :
        ChildEdgeAtThrows(n, i) \/ MemoryAbsent(getChildEdgeAt(n, i))
SrcMissing(n) ==
    \E i \in 0..(Len(parentEdges[n]) - 1) :
        ParentEdgeAtThrows(n, i) \/ MemoryAbsent(getParentEdgeAt(n, i))
ChecksRaiseMutantChildrenOnly(n) == DstMissing(n)
ChecksRaise(n) == DstMissing(n) \/ SrcMissing(n)

\* prepareMemory up to the blob loop: the two loops over the edges, then
\* internalBlobMemory.clear(). A call that raises is over.
PrepareBegin(n) ==
    /\ pc[n].at \in {"idle", "done"}
    /\ pc[n].calls < MaxCalls
    /\ IF ChecksRaise(n)
       THEN /\ threw' = TRUE
            /\ pc' = [pc EXCEPT ![n].calls = @ + 1]
            /\ UNCHANGED internalBlobMemory
       ELSE /\ threw' = FALSE
            /\ internalBlobMemory' = [internalBlobMemory EXCEPT ![n] = <<>>]
            /\ pc' = [pc EXCEPT ![n] = [at |-> IF internalBlobs[n] = <<>> THEN "done"
                                                ELSE "blob",
                                         i |-> 0, ptr |-> Null, calls |-> pc[n].calls + 1]]
    /\ CacheFrame("prepareMemory", n)
    /\ UNCHANGED <<weightCache, buffers, guard>>

\* else ptr = create();
CreateDirect(n) ==
    /\ pc[n].at = "blob"
    /\ ~UsesCache(n)
    /\ buffers' = Append(buffers, create(n, pc[n].i))
    /\ AfterBlob(n, Len(buffers) + 1)
    /\ CacheStep("create", n)
    /\ UNCHANGED <<weightCache, guard>>

\* findOrCreate(key, create): the cache takes its lock ...
Acquire(n) ==
    /\ pc[n].at = "blob"
    /\ UsesCache(n)
    /\ guard = Null
    /\ guard' = n
    /\ pc' = [pc EXCEPT ![n].at = "find"]
    /\ CacheStep("lock", n)
    /\ UNCHANGED <<internalBlobMemory, weightCache, buffers>>

\* ... looks the key up ...
Find(n) ==
    /\ pc[n].at = "find"
    /\ \E key \in {string_hash(n, pc[n].i)} :
        IF key \in DOMAIN weightCache
        THEN pc' = [pc EXCEPT ![n].at = "release", ![n].ptr = weightCache[key]]
        ELSE pc' = [pc EXCEPT ![n].at = "create"]
    /\ CacheStep("find", n)
    /\ UNCHANGED <<internalBlobMemory, weightCache, buffers, guard>>

\* ... runs the factory and stores the new buffer when the key is absent ...
CreateAndStore(n) ==
    /\ pc[n].at = "create"
    /\ buffers' = Append(buffers, create(n, pc[n].i))
    /\ weightCache' = (string_hash(n, pc[n].i) :> (Len(buffers) + 1)) @@ weightCache
    /\ pc' = [pc EXCEPT ![n].at = "release", ![n].ptr = Len(buffers) + 1]
    /\ CacheStep("store", n)
    /\ UNCHANGED <<internalBlobMemory, guard>>

\* ... and gives the lock back; the caller keeps the buffer.
Release(n) ==
    /\ pc[n].at = "release"
    /\ guard' = Null
    /\ AfterBlob(n, pc[n].ptr)
    /\ CacheStep("findOrCreate", n)
    /\ UNCHANGED <<weightCache, buffers>>

\* The weight blobs of the model: A, B with the same size and digest but different
\* bytes, C with another digest, D with another size.
BlobLists ==
    LET A == Blob(4, 1)
        B == Blob(4, 3)
        C == Blob(4, 2)
        D == Blob(8, 1)
    IN  {<<A>>, <<A, A>>, <<B, A>>, <<C>>, <<D>>}

\* Two weight-bearing nodes (a layer and its replica, or two layers) and a node
\* without weights.
InitCache ==
    /\ edgeParent = [e \in Edges |-> 1]
    /\ edgeChild = [e \in Edges |-> Target]
    /\ nodeAlive = [n \in Nodes |-> TRUE]
    /\ edgeAlive = [e \in Edges |-> TRUE]
    /\ parentEdges = [n \in Nodes |-> <<>>]
    /\ childEdges = [n \in Nodes |-> <<>>]
    /\ edgePort = [e \in Edges |-> 0]
    /\ supportedPrimitiveDescriptors = [n \in Nodes |-> <<>>]
    /\ selectedPrimitiveDescriptorIndex = [n \in Nodes |-> -1]
    /\ implPriorities = [n \in Nodes |-> <<>>]
    /\ ConstIdle /\ FilterIdle /\ BatchIdle /\ PlanIdle
    /\ nodeName \in [Nodes -> {"w", "w_1"}]
    /\ nodeName[1] = "w" /\ nodeName[Target] = "w"
    /\ internalBlobs \in [Nodes -> BlobLists \cup {<<>>}]
    /\ \A n \in Nodes : internalBlobs[n] = <<>> <=> n = Target
    /\ cacheOf \in [Nodes -> {"shared", "null"}]
    /\ cacheOf[1] = "shared" /\ cacheOf[Target] = "shared"
    /\ internalBlobMemory = [n \in Nodes |-> <<>>]
    /\ weightCache = <<>>
    /\ buffers = <<>>
    /\ pc = [n \in Nodes |-> [at |-> "idle", i |-> 0, ptr |-> Null, calls |-> 0]]
    /\ guard = Null
    /\ threw = FALSE
    /\ last = Op("init", 0, Null, 0)
    /\ ret = NoRet

NextCache ==
    \/ \E n \in Nodes : PrepareBegin(n)
    \/ \E n \in Nodes : CreateDirect(n)
    \/ \E n \in Nodes : Acquire(n)
    \/ \E n \in Nodes : Find(n)
    \/ \E n \in Nodes : CreateAndStore(n)
    \/ \E n \in Nodes : Release(n)

SpecCache == InitCache /\ [][NextCache]_vars

\* =========================================================== format filter
\* A TensorDesc of a port: the order of the dimensions, the inner blocks, and the
\* concrete strides ("dense" or "padded").
TensorDesc(order, blocks, strides) == [order |-> order, blocks |-> blocks, strides |-> strides]

\* MKLDNNMemoryDesc{dims, precision, fmt}: the dense descriptor of a format tag.
MemoryDescOf(fmt) ==
    CASE fmt = "nchw" -> TensorDesc(<<0, 1, 2, 3>>, <<>>, "dense")
      [] fmt = "nhwc" -> TensorDesc(<<0, 2, 3, 1>>, <<>>, "dense")
      [] fmt = "nChw8c" -> TensorDesc(<<0, 1, 2, 3>>, <<8>>, "dense")

\* PartialBlkDesc::extractFrom: the layout without the particular stride values.
\* A descriptor the enumeration built is known by its format tag: its layout is that
\* of the tag, and Layout::ANY has no blocking layout.
extractFrom(tdesc) ==
    IF "order" \in DOMAIN tdesc THEN [order |-> tdesc.order, blocks |-> tdesc.blocks]
    ELSE IF tdesc.format \in {"nchw", "nhwc", "nChw8c"}
    THEN [order |-> MemoryDescOf(tdesc.format).order, blocks |-> MemoryDescOf(tdesc.format).blocks]
    ELSE [order |-> <<>>, blocks |-> <<>>]

\* The areCompatible lambda.
areCompatible(tdesc, fmt) == extractFrom(MemoryDescOf(fmt)) = extractFrom(tdesc)

\* inputMemoryFormatsFilter.size() > config.inConfs.size() || ... outConfs.size()
TooManyHintsMutantBothSides(d, inFilter, outFilter) ==
    Len(inFilter) > Len(d.inConfs) /\ Len(outFilter) > Len(d.outConfs)
TooManyHints(d, inFilter, outFilter) ==
    Len(inFilter) > Len(d.inConfs) \/ Len(outFilter) > Len(d.outConfs)

\* confs[i].desc; the count test keeps i within the port configs.
ConfAt(confs, i) == IF i + 1 \in DOMAIN confs THEN confs[i + 1].desc ELSE TensorDesc(<<>>, <<>>, "none")

\* for (i = 0; i < filter.size(); i++) isSuitableDesc &= areCompatible(confs[i].desc, filter[i]);
\* from hint i on, with the running isSuitableDesc.
RECURSIVE HintLoopMutantLastOnly(_, _, _, _)
HintLoopMutantLastOnly(confs, filter, i, isSuitableDesc) ==
    IF i >= Len(filter) THEN isSuitableDesc
    ELSE HintLoopMutantLastOnly(confs, filter, i + 1, areCompatible(ConfAt(confs, i), filter[i + 1]))

RECURSIVE HintLoop(_, _, _, _)
HintLoop(confs, filter, i, isSuitableDesc) ==
    IF i >= Len(filter) THEN isSuitableDesc
    ELSE HintLoop(confs, filter, i + 1,
                  isSuitableDesc /\ areCompatible(ConfAt(confs, i), filter[i + 1]))

\* while (itpd != end): the descriptors kept so far and those still to visit; the
\* result is whether the loop raised and the list it leaves.
RECURSIVE FilterLoop(_, _, _, _)
FilterLoop(kept, rest, inFilter, outFilter) ==
    IF rest = <<>> THEN [threw |-> FALSE, list |-> kept]
    ELSE IF TooManyHints(Head(rest), inFilter, outFilter)
    THEN [threw |-> TRUE, list |-> kept \o rest]
    ELSE IF HintLoop(Head(rest).outConfs, outFilter, 0,
                     HintLoop(Head(rest).inConfs, inFilter, 0, TRUE))
    THEN FilterLoop(Append(kept, Head(rest)), Tail(rest), inFilter, outFilter)
    ELSE FilterLoop(kept, Tail(rest), inFilter, outFilter)

\* n.filterSupportedPrimitiveDescriptors()
filterSupportedPrimitiveDescriptors(n) ==
    IF inputMemoryFormatsFilter[n] # <<>> \/ outputMemoryFormatsFilter[n] # <<>>
    THEN FilterLoop(<<>>, supportedPrimitiveDescriptors[n],
                    inputMemoryFormatsFilter[n], outputMemoryFormatsFilter[n])
    ELSE [threw |-> FALSE, list |-> supportedPrimitiveDescriptors[n]]

\* last.k of a filter step: the descriptor list before the call.
FilterSupportedPrimitiveDescriptors(n) ==
    /\ nodeAlive[n]
    /\ \E r \in {filterSupportedPrimitiveDescriptors(n)} :
        /\ supportedPrimitiveDescriptors' = [supportedPrimitiveDescriptors EXCEPT ![n] = r.list]
        /\ threw' = r.threw
    /\ ret' = NoRet
    /\ last' = Op("filter", 0, n, supportedPrimitiveDescriptors[n])
    /\ UNCHANGED <<graphVars, selectedPrimitiveDescriptorIndex, implPriorities>>
    /\ UNCHANGED <<constVars, cacheVars, filterVars, batchVars, planVars>>

\* Port descriptors: plain dense, plain with padded strides, blocked dense.
PortDescs ==
    {TensorDesc(<<0, 1, 2, 3>>, <<>>, "dense"), TensorDesc(<<0, 1, 2, 3>>, <<>>, "padded"),
     TensorDesc(<<0, 1, 2, 3>>, <<8>>, "dense")}

\* The enumerated descriptors: one or two input ports, one output port.
FilterDescPool ==
    {Desc("ref", Confs(ins), Confs(<<out>>)) :
        ins \in {<<p>> : p \in PortDescs} \cup {<<p, p>> : p \in PortDescs},
        out \in {p \in PortDescs : p.strides = "dense"}}

\* The declared hints.
InputHints == {<<>>, <<"nchw">>, <<"nChw8c">>, <<"nchw", "nchw">>}
OutputHints == {<<>>, <<"nchw">>, <<"nhwc">>, <<"nchw", "nchw">>}

InitFilter ==
    /\ edgeParent = [e \in Edges |-> 1]
    /\ edgeChild = [e \in Edges |-> Target]
    /\ nodeAlive = [n \in Nodes |-> TRUE]
    /\ edgeAlive = [e \in Edges |-> TRUE]
    /\ parentEdges = [n \in Nodes |-> <<>>]
    /\ childEdges = [n \in Nodes |-> <<>>]
    /\ edgePort = [e \in Edges |-> 0]
    /\ \E ds \in SeqsUpTo(FilterDescPool, MaxDescs) :
        supportedPrimitiveDescriptors = [n \in Nodes |-> IF n = Target THEN ds ELSE <<>>]
    /\ selectedPrimitiveDescriptorIndex = [n \in Nodes |-> -1]
    /\ implPriorities = [n \in Nodes |-> <<>>]
    /\ ConstIdle /\ CacheIdle /\ BatchIdle /\ PlanIdle
    /\ \E hints \in InputHints :
        inputMemoryFormatsFilter = [n \in Nodes |-> IF n = Target THEN hints ELSE <<>>]
    /\ \E hints \in OutputHints :
        outputMemoryFormatsFilter = [n \in Nodes |-> IF n = Target THEN hints ELSE <<>>]
    /\ threw = FALSE
    /\ last = Op("init", 0, Null, 0)
    /\ ret = NoRet

NextFilter == \E n \in Nodes : FilterSupportedPrimitiveDescriptors(n)

SpecFilter == InitFilter /\ [][NextFilter]_vars

\* =========================================================== dynamic batch
\* std::min<int>(a, b)
Min(a, b) == IF b < a THEN b ELSE a

\* n.getMaxBatch()
getMaxBatch(n) ==
    IF inDims[n] # <<>>
    THEN (IF Len(inDims[n][1]) # 0 THEN inDims[n][1][1] ELSE 1)
    ELSE IF outDims[n] # <<>> /\ Len(outDims[n][1]) # 0
    THEN outDims[n][1][1]
    ELSE 0

\* n.batchToProcess() with the limit lim in dynBatchLim
batchToProcessMutantMax(n, lim) ==
    IF lim # 0 /\ getMaxBatch(n) < lim THEN lim ELSE getMaxBatch(n)
batchToProcess(n, lim) == IF lim = 0 THEN getMaxBatch(n) ELSE Min(getMaxBatch(n), lim)

\* The arguments whose leading dimension setDynamicBatchLim patches.
BatchArgs == {"DNNL_ARG_SRC", "DNNL_ARG_DST", "DNNL_ARG_DIFF_SRC", "DNNL_ARG_DIFF_DST"}

\* A bound argument: the leading entries of its dims and padded_dims, and its
\* data handle.
Arg(d, p, h) == [dims0 |-> d, padded_dims0 |-> p, handle |-> h]

\* setDynamicBatch(argType, newBatch) for the four argument roles.
setDynamicBatchMutantAllArgs(args, newBatch) ==
    [a \in DOMAIN args |-> Arg(newBatch, newBatch, args[a].handle)]
setDynamicBatch(args, newBatch) ==
    [a \in DOMAIN args |->
        IF a \in BatchArgs THEN Arg(newBatch, newBatch, args[a].handle) ELSE args[a]]

BatchStatic ==
    /\ threw' = FALSE
    /\ UNCHANGED <<graphVars, selectVars, constVars, cacheVars, filterVars, planVars>>
    /\ UNCHANGED <<inDims, outDims>>

\* n.setDynamicBatchLim(lim)
SetDynamicBatchLim(n, lim) ==
    /\ nodeAlive[n]
    /\ dynBatchLim' = [dynBatchLim EXCEPT ![n] = lim]
    /\ primArgs' = [primArgs EXCEPT ![n] =
                        IF DOMAIN primArgs[n] # {}
                        THEN setDynamicBatch(@, batchToProcess(n, lim))
                        ELSE @]
    /\ ret' = NoRet
    /\ last' = Op("setDynamicBatchLim", 0, n, lim)
    /\ BatchStatic

\* n.batchToProcess()
BatchToProcess(n) ==
    /\ nodeAlive[n]
    /\ ret' = Ret(batchToProcess(n, dynBatchLim[n]))
    /\ last' = Op("batchToProcess", 0, n, dynBatchLim[n])
    /\ BatchStatic
    /\ UNCHANGED <<dynBatchLim, primArgs>>

\* Shapes of the node's inputs and outputs, the limits handed to setDynamicBatchLim,
\* and the bound arguments (none before the primitive is created).
InShapes == {<<>>, <<<<>>>>, <<<<8, 3>>>>, <<<<4, 3>>, <<8, 3>>>>}
OutShapes == {<<>>, <<<<>>>>, <<<<8, 3>>>>}
Limits == {-1, 0, 4, 16}

ArgHandle == [DNNL_ARG_SRC |-> 1, DNNL_ARG_DST |-> 2, DNNL_ARG_DIFF_DST |-> 3,
              DNNL_ARG_WEIGHTS |-> 4]

BoundArgs(batch) ==
    {<<>>} \cup
    {[a \in roles |-> IF a = "DNNL_ARG_WEIGHTS" THEN Arg(16, 16, ArgHandle[a])
                      ELSE Arg(batch, batch, ArgHandle[a])] :
        roles \in {{"DNNL_ARG_SRC", "DNNL_ARG_DST", "DNNL_ARG_WEIGHTS"},
                   {"DNNL_ARG_DIFF_DST", "DNNL_ARG_WEIGHTS"}}}

InitBatch ==
    /\ edgeParent = [e \in Edges |-> 1]
    /\ edgeChild = [e \in Edges |-> Target]
    /\ nodeAlive = [n \in Nodes |-> TRUE]
    /\ edgeAlive = [e \in Edges |-> TRUE]
    /\ parentEdges = [n \in Nodes |-> <<>>]
    /\ childEdges = [n \in Nodes |-> <<>>]
    /\ edgePort = [e \in Edges |-> 0]
    /\ supportedPrimitiveDescriptors = [n \in Nodes |-> <<>>]
    /\ selectedPrimitiveDescriptorIndex = [n \in Nodes |-> -1]
    /\ implPriorities = [n \in Nodes |-> <<>>]
    /\ ConstIdle /\ CacheIdle /\ FilterIdle /\ PlanIdle
    /\ dynBatchLim = [n \in Nodes |-> 0]
    /\ \E shapes \in InShapes : inDims = [n \in Nodes |-> IF n = Target THEN shapes ELSE <<>>]
    /\ \E shapes \in OutShapes : outDims = [n \in Nodes |-> IF n = Target THEN shapes ELSE <<>>]
    /\ \E args \in BoundArgs(getMaxBatch(Target)) :
        primArgs = [n \in Nodes |-> IF n = Target THEN args ELSE <<>>]
    /\ threw = FALSE
    /\ last = Op("init", 0, Null, 0)
    /\ ret = NoRet

NextBatch ==
    \/ \E n \in Nodes, lim \in Limits : SetDynamicBatchLim(n, lim)
    \/ \E n \in Nodes : BatchToProcess(n)

SpecBatch == InitBatch /\ [][NextBatch]_vars

\* ================================================== descriptor enumeration
\* A backend implementation a primitive_desc_iterator yields: impl_info_str() and the
\* (precision, format) of src_desc(i) and dst_desc(i).
Impl(name, src, dst) == [impl_info_str |-> name, src |-> src, dst |-> dst]
BackendDesc(precision, format) == [precision |-> precision, format |-> format]

\* A descriptor template (MKLDNNDescriptor): its input and output numbers and the
\* implementations createPrimitiveDescriptorIterator enumerates, in order.
Template(ins, outs, impls) == [inputNumbers |-> ins, outputNumbers |-> outs, impls |-> impls]

descInputNumbers(desc) == desc.inputNumbers
descOutputNumbers(desc) == desc.outputNumbers

\* parse_impl_name: the implementation type spelled by the words of the string,
\* unknown when it spells none.
parse_impl_name(str) ==
    CASE str \in {"jit:avx2", "cpu:jit_avx2"} -> "jit_avx2"
      [] str \in {"ref:any", "cpu:ref_any"} -> "ref_any"
      [] str \in {"ref", "cpu:ref"} -> "ref"
      [] OTHER -> "unknown"

\* getSrcMemDesc(itpd, idx) / getDstMemDesc(itpd, idx): the backend descriptor with
\* the dims of the parent (child) edge at idx.
getSrcMemDesc(n, impl, idx) ==
    PortDesc(impl.src[idx + 1].precision, getDims(getParentEdgeAt(n, idx)),
             impl.src[idx + 1].format, TRUE)
getDstMemDesc(n, impl, idx) ==
    PortDesc(impl.dst[idx + 1].precision, getDims(getChildEdgeAt(n, idx)),
             impl.dst[idx + 1].format, TRUE)

\* MKLDNNExtensionUtils::getUninitTensorDesc: the same descriptor with its offsets
\* and strides marked undefined; Layout::ANY is returned as it is.
getUninitTensorDesc(desc) == IF desc.format = "ANY" THEN desc ELSE [desc EXCEPT !.init = FALSE]

\* The result of a loop of the enumeration: what it built, whether it raised, and
\* the classification the canBeInPlace calls left.
Built(b, t, C) == [built |-> b, threw |-> t, constant |-> C]

\* for (i = 0; i < descInputNumbers(desc); i++) of initSupportedPrimitiveDescriptors,
\* from port i on.
RECURSIVE SrcConfs(_, _, _, _, _, _)
SrcConfs(n, desc, impl, i, confs, C) ==
    IF i >= descInputNumbers(desc) THEN Built(confs, FALSE, C)
    ELSE IF ParentEdgeAtThrows(n, i) THEN Built(confs, TRUE, C)
    ELSE SrcConfs(n, desc, impl, i + 1,
                  Append(confs, DataConfig(-1, FALSE,
                                           getUninitTensorDesc(getSrcMemDesc(n, impl, i)))), C)

\* inPlace of an output port: canBeInPlace() ? 0 : -1
OutInPlace(verdict) == IF verdict = Ret(TRUE) THEN 0 ELSE -1

\* for (i = 0; i < descOutputNumbers(desc); i++) of initSupportedPrimitiveDescriptors,
\* from port i on.
RECURSIVE DstConfs(_, _, _, _, _, _)
RECURSIVE DstConf(_, _, _, _, _, _)
DstConfs(n, desc, impl, i, confs, C) ==
    IF i >= descOutputNumbers(desc) THEN Built(confs, FALSE, C)
    ELSE DstConf(n, desc, impl, i, confs, canBeInPlaceUnder(C, n))

\* One pass of that loop, o being what canBeInPlace() gave.
DstConf(n, desc, impl, i, confs, o) ==
    IF o.threw THEN Built(confs, TRUE, o.constant)
    ELSE IF ChildEdgeAtThrows(n, i) THEN Built(confs, TRUE, o.constant)
    ELSE DstConfs(n, desc, impl, i + 1,
                  Append(confs, DataConfig(OutInPlace(o.ret), FALSE,
                                           getUninitTensorDesc(getDstMemDesc(n, impl, i)))),
                  o.constant)

\* while (itpd) { ... emplace_back(config, impl_type); if (!itpd.next_impl()) break; }
\* from implementation k of the template on.
RECURSIVE ImplLoop(_, _, _, _, _)
RECURSIVE ImplOutputs(_, _, _, _, _, _)
RECURSIVE ImplEmplace(_, _, _, _, _, _)
ImplLoop(n, desc, k, list, C) ==
    IF k >= Len(desc.impls) THEN Built(list, FALSE, C)
    ELSE ImplOutputs(n, desc, k, list, C, SrcConfs(n, desc, desc.impls[k + 1], 0, <<>>, C))

\* One pass of that loop once the input configs ins are built.
ImplOutputs(n, desc, k, list, C, ins) ==
    IF ins.threw THEN Built(list, TRUE, C)
    ELSE ImplEmplace(n, desc, k, list, ins, DstConfs(n, desc, desc.impls[k + 1], 0, <<>>, C))

\* ... and once the output configs outs are built.
ImplEmplace(n, desc, k, list, ins, outs) ==
    IF outs.threw THEN Built(list, TRUE, outs.constant)
    ELSE ImplLoop(n, desc, k + 1,
                  Append(list, Desc(parse_impl_name(desc.impls[k + 1].impl_info_str),
                                    ins.built, outs.built)),
                  outs.constant)

\* for (auto& desc : descs), from template j on.
RECURSIVE DescLoopMutantReversed(_, _, _, _)
DescLoopMutantReversed(n, j, list, C) ==
    IF j >= Len(descs[n]) THEN Built(list, FALSE, C)
    ELSE LET r == ImplLoop(n, descs[n][Len(descs[n]) - j], 0, list, C)
         IN  IF r.threw THEN r ELSE DescLoopMutantReversed(n, j + 1, r.built, r.constant)
RECURSIVE DescLoop(_, _, _, _)
DescLoop(n, j, list, C) ==
    IF j >= Len(descs[n]) THEN Built(list, FALSE, C)
    ELSE LET r == ImplLoop(n, descs[n][j + 1], 0, list, C)
         IN  IF r.threw THEN r ELSE DescLoop(n, j + 1, r.built, r.constant)

\* n.initSupportedPrimitiveDescriptors()
initSupportedPrimitiveDescriptorsMutantAlways(n) == DescLoop(n, 0, supportedPrimitiveDescriptors[n], constant)
initSupportedPrimitiveDescriptors(n) ==
    IF supportedPrimitiveDescriptors[n] # <<>>
    THEN Built(supportedPrimitiveDescriptors[n], FALSE, constant)
    ELSE DescLoop(n, 0, supportedPrimitiveDescriptors[n], constant)

\* The enumeration dereferences, through canBeInPlace, the nodes at the far end of
\* the edges: the call is made on a graph whose nodes exist.
InitSupportedPrimitiveDescriptors(n) ==
    /\ nodeAlive[n]
    /\ \A m \in Nodes : ParentsAlive(m)
    /\ \E r \in {initSupportedPrimitiveDescriptors(n)} :
        /\ supportedPrimitiveDescriptors' = [supportedPrimitiveDescriptors EXCEPT ![n] = r.built]
        /\ threw' = r.threw
        /\ constant' = r.constant
    /\ ret' = NoRet
    /\ last' = Op("initSupportedPrimitiveDescriptors", 0, n, supportedPrimitiveDescriptors[n])
    /\ UNCHANGED <<graphVars, selectedPrimitiveDescriptorIndex, implPriorities, nodeType, edgeDims, walk, stack>>
    /\ UNCHANGED <<cacheVars, filterVars, batchVars, planVars>>

\* The implementations the backend offers, and the template lists of a node.
JitImpl(ins, outs) ==
    Impl("jit:avx2", [i \in 1..ins |-> BackendDesc("FP32", "nChw8c")],
         [i \in 1..outs |-> BackendDesc("FP32", "nChw8c")])
RefImpl(ins, outs) ==
    Impl("ref:any", [i \in 1..ins |-> BackendDesc("FP32", "ANY")],
         [i \in 1..outs |-> BackendDesc("FP32", "nchw")])
NewImpl(ins, outs) ==
    Impl("brgconv", [i \in 1..ins |-> BackendDesc("I8", "nhwc")],
         [i \in 1..outs |-> BackendDesc("FP32", "nhwc")])

TemplateLists ==
    {<<>>,
     <<Template(1, 1, <<>>)>>,
     <<Template(1, 1, <<JitImpl(1, 1), RefImpl(1, 1)>>)>>,
     <<Template(1, 1, <<RefImpl(1, 1)>>), Template(1, 1, <<NewImpl(1, 1), JitImpl(1, 1)>>)>>,
     <<Template(2, 1, <<JitImpl(2, 1)>>)>>}

InitEnumerate ==
    /\ Topology
    /\ nodeAlive = [n \in Nodes |-> TRUE]
    /\ edgeAlive = [e \in Edges |-> TRUE]
    /\ parentEdges = [n \in Nodes |-> <<>>]
    /\ childEdges = [n \in Nodes |-> <<>>]
    /\ edgePort = [e \in Edges |-> 0]
    /\ supportedPrimitiveDescriptors = [n \in Nodes |-> <<>>]
    /\ selectedPrimitiveDescriptorIndex = [n \in Nodes |-> -1]
    /\ implPriorities = [n \in Nodes |-> <<>>]
    /\ SourcesClassified
    /\ walk = NoWalk
    /\ stack = <<>>
    /\ nodeType = [n \in Nodes |-> "Generic"]
    /\ edgeDims \in [Edges -> DimsChoices]
    /\ CacheIdle /\ FilterIdle /\ BatchIdle
    /\ \E templates \in TemplateLists : descs = [n \in Nodes |-> templates]
    /\ edgeStatus = [e \in Edges |-> "Uninitialized"]
    /\ edgeMemory = [e \in Edges |-> Null]
    /\ edgeChildPort = [e \in Edges |-> 0]
    /\ outOfBounds = FALSE
    /\ threw = FALSE
    /\ last = Op("init", 0, Null, 0)
    /\ ret = NoRet

NextEnumerate ==
    \/ \E e \in Edges : LinkEdge(e)
    \/ \E n \in Nodes : InitSupportedPrimitiveDescriptors(n)

SpecEnumerate == InitEnumerate /\ [][NextEnumerate]_vars

\* ======================================================== edge resolution
\* An MKLDNNMemory: the raw data pointer it views and its descriptor.
Memory(data, desc) == [data |-> data, desc |-> desc]

\* MKLDNNEdge::getStatus()
getStatus(e) == edgeStatus[e]

\* MKLDNNEdge::getMemory().GetData(): the raw pointer the edge views, for an edge that
\* is not allocated the buffer of the edge it refers to.
GetData(e) == edgeMemory[e].data

\* The edges as one loop of resolveNotAllocatedEdges leaves them.
EdgeState(status, memory, t) == [status |-> status, memory |-> memory, threw |-> t]

\* Loop body: skip the edge unless it is NotAllocated and its port is in-place;
\* otherwise give it a new memory over the same raw pointer with the descriptor of
\* the port config, and changeStatus(Allocated).
ResolveEdgeMutantAnyPort(E, e, conf) ==
    IF E.status[e] # "NotAllocated" THEN E
    ELSE EdgeState([E.status EXCEPT ![e] = "Allocated"],
                   [E.memory EXCEPT ![e] = Memory(E.memory[e].data, conf.desc)], FALSE)
ResolveEdge(E, e, conf) ==
    IF E.status[e] # "NotAllocated" \/ conf.inPlace < 0 THEN E
    ELSE EdgeState([E.status EXCEPT ![e] = "Allocated"],
                   [E.memory EXCEPT ![e] = Memory(E.memory[e].data, conf.desc)], FALSE)

\* for (i = 0; i < getParentEdges().size() && i < inConfs.size(); i++), from i on.
RECURSIVE ResolveParents(_, _, _, _)
ResolveParents(n, confs, i, E) ==
    IF i >= Len(parentEdges[n]) \/ i >= Len(confs) THEN E
    ELSE IF ParentEdgeAtThrows(n, i) THEN [E EXCEPT !.threw = TRUE]
    ELSE ResolveParents(n, confs, i + 1, ResolveEdge(E, getParentEdgeAt(n, i), confs[i + 1]))

\* for (i = 0; i < getChildEdges().size() && i < outConfs.size(); i++), from i on.
RECURSIVE ResolveChildren(_, _, _, _)
ResolveChildren(n, confs, i, E) ==
    IF i >= Len(childEdges[n]) \/ i >= Len(confs) THEN E
    ELSE IF ChildEdgeAtThrows(n, i) THEN [E EXCEPT !.threw = TRUE]
    ELSE ResolveChildren(n, confs, i + 1, ResolveEdge(E, getChildEdgeAt(n, i), confs[i + 1]))

\* n.resolveNotAllocatedEdges()
resolveNotAllocatedEdges(n) ==
    LET selected_pd == getSelectedPrimitiveDescriptor(n)
        E0 == EdgeState(edgeStatus, edgeMemory, FALSE)
    IN  IF selected_pd = NoDesc THEN [E0 EXCEPT !.threw = TRUE]
        ELSE LET E1 == ResolveParents(n, selected_pd.inConfs, 0, E0)
             IN  IF E1.threw THEN E1
                 ELSE ResolveChildren(n, selected_pd.outConfs, 0, E1)

ResolveNotAllocatedEdges(n) ==
    /\ nodeAlive[n]
    /\ \E E \in {resolveNotAllocatedEdges(n)} :
        /\ edgeStatus' = E.status
        /\ edgeMemory' = E.memory
        /\ threw' = E.threw
    /\ ret' = NoRet
    /\ last' = Op("resolveNotAllocatedEdges", 0, n, 0)
    /\ UNCHANGED <<graphVars, selectVars, constVars, cacheVars, filterVars, batchVars>>
    /\ UNCHANGED <<descs, edgeChildPort, outOfBounds>>

\* The node whose edges are resolved: fed by node 1, feeding node 3.
Middle == 2

EdgeStatuses == {"Uninitialized", "NeedAllocation", "NotAllocated", "Allocated", "Validated"}

\* The port configs of the selected descriptor: plain or blocked, in-place or not.
ResolveConfs ==
    {DataConfig(p, FALSE, PortDesc("FP32", <<2, 3>>, f, TRUE)) : p \in {-1, 0}, f \in {"nchw"}}

\* The graph is built and a descriptor may be selected on each node; edge 1 enters
\* the middle node, edge 2 leaves it, edge 3 does either. Every edge views a buffer
\* (its own, or for an edge that is not allocated the one it refers to).
InitResolve ==
    /\ edgeParent \in [Edges -> {1, Middle}]
    /\ edgeChild \in [Edges -> {Middle, 3}]
    /\ edgeParent[1] = 1 /\ edgeChild[1] = Middle
    /\ edgeParent[2] = Middle /\ edgeChild[2] = 3
    /\ (edgeParent[3] = Middle) # (edgeChild[3] = Middle)
    /\ nodeAlive = [n \in Nodes |-> TRUE]
    /\ edgeAlive = [e \in Edges |-> TRUE]
    /\ parentEdges = [n \in Nodes |->
                        SelectSeq([i \in 1..3 |-> i], LAMBDA e : edgeChild[e] = n)]
    /\ childEdges = [n \in Nodes |->
                        SelectSeq([i \in 1..3 |-> i], LAMBDA e : edgeParent[e] = n)]
    /\ edgePort = [e \in Edges |-> 0]
    /\ \E ins \in SeqsUpTo(ResolveConfs, 2), outs \in SeqsUpTo(ResolveConfs, 2) :
        supportedPrimitiveDescriptors = [n \in Nodes |-> <<Desc("ref", ins, outs)>>]
    /\ selectedPrimitiveDescriptorIndex \in [Nodes -> {-1, 0}]
    /\ selectedPrimitiveDescriptorIndex[1] = 0 /\ selectedPrimitiveDescriptorIndex[3] = 0
    /\ implPriorities = [n \in Nodes |-> <<>>]
    /\ ConstIdle /\ CacheIdle /\ FilterIdle /\ BatchIdle
    /\ descs = [n \in Nodes |-> <<>>]
    /\ edgeStatus \in [Edges -> EdgeStatuses]
    /\ edgeMemory = [e \in Edges |-> Memory(e, PortDesc("FP32", <<2, 3>>, "nChw8c", TRUE))]
    /\ edgeChildPort = [e \in Edges |-> 0]
    /\ outOfBounds = FALSE
    /\ threw = FALSE
    /\ last = Op("init", 0, Null, 0)
    /\ ret = NoRet

NextResolve == \E n \in Nodes : ResolveNotAllocatedEdges(n)

SpecResolve == InitResolve /\ [][NextResolve]_vars

\* ========================================== optimal descriptor finalization
\* A LayerConfig: the input and output port configs.
LayerConfig(ins, outs) == [inConfs |-> ins, outConfs |-> outs]

\* PrimitiveDescInfo::getConfig(), and the descriptor after getConfig() = config.
getConfig(pd) == LayerConfig(pd.inConfs, pd.outConfs)
setConfig(pd, config) == Desc(pd.implType, config.inConfs, config.outConfs)

\* MKLDNNEdge::getOutputNum(): the recorded input port of the child.
getOutputNum(e) == edgeChildPort[e]

\* isUninitTensorDesc: Layout::ANY, or an offset or stride that is not defined.
isUninitTensorDesc(desc) == desc.format = "ANY" \/ ~desc.init

\* isInitConfig: no port descriptor of the config is uninitialized.
isInitConfig(config) ==
    /\ \A i \in DOMAIN config.inConfs : ~isUninitTensorDesc(config.inConfs[i].desc)
    /\ \A i \in DOMAIN config.outConfs : ~isUninitTensorDesc(config.outConfs[i].desc)

\* InferenceEngine::TensorDesc::getLayoutByDims: the plain layout of the rank.
getLayoutByDims(dims) ==
    CASE Len(dims) = 1 -> "c"
      [] Len(dims) = 2 -> "nc"
      [] Len(dims) = 3 -> "chw"
      [] Len(dims) = 4 -> "nchw"
      [] Len(dims) = 5 -> "ncdhw"
      [] OTHER -> "blocked"

\* MKLDNNMemoryDesc(TensorDesc) converted back: the descriptor of that precision,
\* dims and blocked format with its offsets and strides computed.
MKLDNNMemoryDesc(desc) == PortDesc(desc.precision, desc.dims, desc.format, TRUE)

\* TensorDesc(precision, dims, {blockDims, order}): a blocked descriptor with dense
\* strides.
BlockedTensorDesc(precision, dims, format) == PortDesc(precision, dims, format, TRUE)

\* What the finalization works on: the descriptor lists of all nodes, the constant
\* classification, whether an error was raised, and whether a port config list was
\* indexed past its end.
World(S, C) == [spd |-> S, constant |-> C, threw |-> FALSE, oob |-> FALSE]
Raise(W) == [W EXCEPT !.threw = TRUE]

\* A read past the end of a port config list is undefined: it yields whatever lies
\* there (g.conf) or ends the call (g.crash).
PastEnd(W, g) == [W EXCEPT !.oob = TRUE, !.threw = g.crash]

\* The value a descriptor query returns, and the world it leaves.
Result(desc, W) == [desc |-> desc, world |-> W]
NoTensor == PortDesc("UNSPECIFIED", <<>>, "ANY", FALSE)

\* A config with one port descriptor replaced.
WithInDesc(config, i, desc) == [config EXCEPT !.inConfs[i + 1].desc = desc]
WithOutDesc(config, i, desc) == [config EXCEPT !.outConfs[i + 1].desc = desc]

\* getSelectedPrimitiveDescriptor() in the world W.
SelectedIn(W, n) ==
    LET i == selectedPrimitiveDescriptorIndex[n]
    IN  IF i < 0 \/ i >= Len(W.spd[n]) THEN NoDesc ELSE W.spd[n][i + 1]

\* if (confs.size() <= num) num = 0;  the int num is compared as an unsigned value,
\* so a negative num is reset too.
ResetPort(num, size) == IF num < 0 \/ size <= num THEN 0 ELSE num

\* The last two returns of getConfiguredInputDesc / getConfiguredOutputDesc: the
\* port's own format when it has one, else the plain layout of its rank.
OwnLayoutMutantPlain(own, W) ==
    Result(PortDesc(own.precision, own.dims, getLayoutByDims(own.dims), TRUE), W)
OwnLayout(own, W) ==
    IF own.format # "ANY"
    THEN Result(BlockedTensorDesc(own.precision, own.dims, own.format), W)
    ELSE Result(PortDesc(own.precision, own.dims, getLayoutByDims(own.dims), TRUE), W)

\* The neighbour's concrete layout when own is Layout::ANY and it is not:
\* TensorDesc(neighbourConf.desc.getPrecision(), neighbourConf.desc.getDims(), ...).
NeighbourLayout(own, neighbourDesc) ==
    BlockedTensorDesc(neighbourDesc.precision, neighbourDesc.dims, neighbourDesc.format)

\* The choice among the neighbour's descriptor, the neighbour's layout and the own
\* layout, once neighbourConf has been read again.
ChooseDesc(own, neighbourConf, W) ==
    IF ~isUninitTensorDesc(neighbourConf.desc) /\ initTensorsAreEqual(neighbourConf.desc, own)
    THEN Result(neighbourConf.desc, W)
    ELSE IF own.format = "ANY" /\ neighbourConf.desc.format # "ANY"
    THEN Result(NeighbourLayout(own, neighbourConf.desc), W)
    ELSE OwnLayout(own, W)

RECURSIVE getConfiguredInputDesc(_, _, _, _, _)
RECURSIVE getConfiguredOutputDesc(_, _, _, _, _)
RECURSIVE AgainstParent(_, _, _, _, _, _)
RECURSIVE AgainstChild(_, _, _, _, _, _)
RECURSIVE ResolveInputs(_, _, _, _, _)
RECURSIVE ResolveOutputs(_, _, _, _, _)
RECURSIVE initOptimalPrimitiveDescriptor(_, _, _)
RECURSIVE ResolveInput(_, _, _, _, _)
RECURSIVE ResolveOutput(_, _, _, _, _)
RECURSIVE OutputsThenDescriptor(_, _, _)
RECURSIVE ThenDescriptor(_, _)
RECURSIVE ParentAgain(_, _, _, _, _, _)
RECURSIVE ChildAgain(_, _, _, _, _, _)

\* n.getConfiguredInputDesc(config, idx)
getConfiguredInputDesc(W, n, config, idx, g) ==
    IF ~isUninitTensorDesc(config.inConfs[idx + 1].desc)
    THEN Result(config.inConfs[idx + 1].desc, W)
    ELSE IF ParentEdgeAtThrows(n, idx) THEN Result(NoTensor, Raise(W))
    ELSE LET selectedPD == SelectedIn(W, getParent(getParentEdgeAt(n, idx)))
         IN  IF selectedPD = NoDesc THEN Result(NoTensor, Raise(W))
             ELSE IF config.inConfs[idx + 1].inPlace >= 0
             THEN getConfiguredOutputDesc(W, n, config, config.inConfs[idx + 1].inPlace, g)
             ELSE AgainstParent(W, n, config, idx,
                                ResetPort(getInputNum(getParentEdgeAt(n, idx)),
                                          Len(selectedPD.outConfs)), g)

\* if (num >= 0) { ... } of getConfiguredInputDesc and what follows it; num is never
\* negative here.
\* The second read of the neighbour's config list confs at num, in the world W1
\* the neighbour's finalization left, and the choice that follows for the port own.
ReadAgain(W1, own, confs, num, g) ==
    IF W1.threw THEN Result(NoTensor, W1)
    ELSE IF num < Len(confs) THEN ChooseDesc(own, confs[num + 1], W1)
    ELSE IF PastEnd(W1, g).threw THEN Result(NoTensor, PastEnd(W1, g))
    ELSE ChooseDesc(own, g.conf, PastEnd(W1, g))

\* ... W1 being the world after the parent's finalization, if it was called.
ParentAgain(W1, n, config, idx, num, g) ==
    ReadAgain(W1, config.inConfs[idx + 1].desc,
              SelectedIn(W1, getParent(getParentEdgeAt(n, idx))).outConfs, num, g)

AgainstParent(W, n, config, idx, num, g) ==
    LET parent == getParent(getParentEdgeAt(n, idx))
        outs == SelectedIn(W, parent).outConfs
        first == IF num < Len(outs) THEN outs[num + 1] ELSE g.conf
        W0 == IF num < Len(outs) THEN W ELSE PastEnd(W, g)
    IN  IF W0.threw THEN Result(NoTensor, W0)
        ELSE ParentAgain(IF isUninitTensorDesc(first.desc) /\ first.inPlace >= 0
                         THEN initOptimalPrimitiveDescriptor(W0, parent, g)
                         ELSE W0,
                         n, config, idx, num, g)

\* n.getConfiguredOutputDesc(config, idx)
getConfiguredOutputDesc(W, n, config, idx, g) ==
    IF ~isUninitTensorDesc(config.outConfs[idx + 1].desc)
    THEN Result(config.outConfs[idx + 1].desc, W)
    ELSE IF ChildEdgeAtThrows(n, idx) THEN Result(NoTensor, Raise(W))
    ELSE LET selectedPD == SelectedIn(W, getChild(getChildEdgeAt(n, idx)))
         IN  IF selectedPD = NoDesc THEN Result(NoTensor, Raise(W))
             ELSE IF config.outConfs[idx + 1].inPlace >= 0
             THEN getConfiguredInputDesc(W, n, config, config.outConfs[idx + 1].inPlace, g)
             ELSE AgainstChild(W, n, config, idx,
                               ResetPort(getOutputNum(getChildEdgeAt(n, idx)),
                                         Len(selectedPD.inConfs)), g)

\* if (num >= 0) { ... } of getConfiguredOutputDesc and what follows it.
\* ... W1 being the world after the child's finalization, if it was called.
ChildAgain(W1, n, config, idx, num, g) ==
    ReadAgain(W1, config.outConfs[idx + 1].desc,
              SelectedIn(W1, getChild(getChildEdgeAt(n, idx))).inConfs, num, g)

AgainstChild(W, n, config, idx, num, g) ==
    LET child == getChild(getChildEdgeAt(n, idx))
        ins == SelectedIn(W, child).inConfs
        first == IF num < Len(ins) THEN ins[num + 1] ELSE g.conf
        W0 == IF num < Len(ins) THEN W ELSE PastEnd(W, g)
    IN  IF W0.threw THEN Result(NoTensor, W0)
        ELSE ChildAgain(IF isUninitTensorDesc(first.desc) /\ first.inPlace >= 0
                        THEN initOptimalPrimitiveDescriptor(W0, child, g)
                        ELSE W0,
                        n, config, idx, num, g)

\* The configs a loop of the re-enumeration builds for one implementation.
\* for (i = 0; i < descInputNumbers(desc); i++): inPlace = canBeInPlace() ? 0 : -1,
\* desc = getSrcMemDesc(itpd, i); from port i on.
RECURSIVE FinalSrcConfs(_, _, _, _, _, _)
RECURSIVE FinalSrcConf(_, _, _, _, _, _)
FinalSrcConfs(n, desc, impl, i, confs, C) ==
    IF i >= descInputNumbers(desc) THEN Built(confs, FALSE, C)
    ELSE FinalSrcConf(n, desc, impl, i, confs, canBeInPlaceUnder(C, n))

\* One pass of that loop, o being what canBeInPlace() gave.
FinalSrcConf(n, desc, impl, i, confs, o) ==
    IF o.threw THEN Built(confs, TRUE, o.constant)
    ELSE IF ParentEdgeAtThrows(n, i) THEN Built(confs, TRUE, o.constant)
    ELSE FinalSrcConfs(n, desc, impl, i + 1,
                       Append(confs, DataConfig(OutInPlace(o.ret), FALSE,
                                                getSrcMemDesc(n, impl, i))),
                       o.constant)

\* for (i = 0; i < descOutputNumbers(desc); i++): inPlace = -1,
\* desc = getDstMemDesc(itpd, i); from port i on.
RECURSIVE FinalDstConfs(_, _, _, _, _, _)
FinalDstConfs(n, desc, impl, i, confs, C) ==
    IF i >= descOutputNumbers(desc) THEN Built(confs, FALSE, C)
    ELSE IF ChildEdgeAtThrows(n, i) THEN Built(confs, TRUE, C)
    ELSE FinalDstConfs(n, desc, impl, i + 1,
                       Append(confs, DataConfig(-1, FALSE, getDstMemDesc(n, impl, i))), C)

\* The state of the loops of initDescriptor: rightConfig, selected_count, whether
\* an error was raised, and the classification.
Scan(right, count, t, C) == [rightConfig |-> right, selected_count |-> count, threw |-> t, constant |-> C]

\* What one implementation does to rightConfig once its cfg and impl_type are known.
\* The result is a Scan; the count is advanced by the caller.
PickConfig(n, config, cfg, impl_type, lastDesc, st) ==
    LET selectedType == getSelectedPrimitiveDescriptor(n).implType
        atIndex == st.selected_count = selectedPrimitiveDescriptorIndex[n]
    IN  IF atIndex /\ impl_type # selectedType THEN [st EXCEPT !.threw = TRUE]
        ELSE LET st1 == IF atIndex THEN [st EXCEPT !.rightConfig = cfg] ELSE st
             IN  IF lastDesc /\ impl_type = selectedType
                 THEN [st1 EXCEPT !.rightConfig = config]
                 ELSE st1

\* while (itpd) { ... } of initDescriptor for template j, from implementation k on.
RECURSIVE FinalImplLoop(_, _, _, _, _)
RECURSIVE FinalImplOutputs(_, _, _, _, _, _)
RECURSIVE FinalImplPick(_, _, _, _, _, _, _)
RECURSIVE FinalImplNext(_, _, _, _, _)
FinalImplLoop(n, config, j, k, st) ==
    IF k >= Len(descs[n][j + 1].impls) THEN st
    ELSE FinalImplOutputs(n, config, j, k, st,
                          FinalSrcConfs(n, descs[n][j + 1], descs[n][j + 1].impls[k + 1],
                                        0, <<>>, st.constant))

\* One pass of that loop once the input configs ins are built.
FinalImplOutputs(n, config, j, k, st, ins) ==
    IF ins.threw THEN [st EXCEPT !.threw = TRUE, !.constant = ins.constant]
    ELSE FinalImplPick(n, config, j, k, st, ins,
                       FinalDstConfs(n, descs[n][j + 1], descs[n][j + 1].impls[k + 1],
                                     0, <<>>, ins.constant))

\* ... once the output configs outs are built.
FinalImplPick(n, config, j, k, st, ins, outs) ==
    IF outs.threw THEN [st EXCEPT !.threw = TRUE, !.constant = ins.constant]
    ELSE FinalImplNext(n, config, j, k,
                       PickConfig(n, config, LayerConfig(ins.built, outs.built),
                                  parse_impl_name(descs[n][j + 1].impls[k + 1].impl_info_str),
                                  j = Len(descs[n]) - 1,
                                  [st EXCEPT !.constant = ins.constant]))

\* ... and once rightConfig is updated: selected_count++ and the next implementation.
FinalImplNext(n, config, j, k, st1) ==
    IF st1.threw THEN st1
    ELSE FinalImplLoop(n, config, j, k + 1, [st1 EXCEPT !.selected_count = @ + 1])

\* for (j = 0; j < descs.size(); j++) of initDescriptor, from template j on.
RECURSIVE FinalDescLoop(_, _, _, _)
FinalDescLoop(n, config, j, st) ==
    IF j >= Len(descs[n]) \/ st.threw THEN st
    ELSE FinalDescLoop(n, config, j + 1, FinalImplLoop(n, config, j, 0, st))

\* The descs.empty() branch of initDescriptor: "return" keeps the selected config,
\* "throw" raises, "take" makes config the right one.
EmptyDescsVerdict(selectedConfig, config) ==
    IF \/ Len(selectedConfig.inConfs) # Len(config.inConfs)
       \/ Len(selectedConfig.outConfs) # Len(config.outConfs)
    THEN "return"
    ELSE IF \/ \E i \in DOMAIN selectedConfig.inConfs :
                /\ selectedConfig.inConfs[i].desc.format # "ANY"
                /\ ~initTensorsAreEqual(selectedConfig.inConfs[i].desc, config.inConfs[i].desc)
            \/ \E i \in DOMAIN selectedConfig.outConfs :
                /\ selectedConfig.outConfs[i].desc.format # "ANY"
                /\ ~initTensorsAreEqual(selectedConfig.outConfs[i].desc, config.outConfs[i].desc)
    THEN "throw"
    ELSE "take"

\* W with the selected descriptor of n given the config.
SetSelectedConfig(W, n, config) ==
    [W EXCEPT !.spd[n][selectedPrimitiveDescriptorIndex[n] + 1] = setConfig(@, config)]

\* n.initDescriptor(config); createDescriptor is the base class's, which leaves
\* descs as they are.
\* initDescriptor after its loops, st being what they left.
AfterDescLoop(W, n, config, st) ==
    LET selectedPD == SelectedIn(W, n)
        W1 == [W EXCEPT !.constant = st.constant]
    IN  IF st.threw THEN Raise(W1)
        ELSE IF descs[n] # <<>> THEN SetSelectedConfig(W1, n, st.rightConfig)
        ELSE LET verdict == EmptyDescsVerdict(getConfig(selectedPD), config)
             IN  IF verdict = "return" THEN W1
                 ELSE IF verdict = "throw" THEN Raise(W1)
                 ELSE SetSelectedConfig(W1, n, config)

initDescriptor(W, n, config) ==
    IF SelectedIn(W, n) = NoDesc THEN W
    ELSE AfterDescLoop(W, n, config,
                       FinalDescLoop(n, config, 0,
                                     Scan(getConfig(SelectedIn(W, n)), 0, FALSE, W.constant)))

\* for (i = 0; i < config.inConfs.size(); i++)
\*     config.inConfs[i].desc = MKLDNNMemoryDesc(getConfiguredInputDesc(config, i));
\* from port i on: the config and the world the loop leaves.
ResolveInputs(W, n, config, i, g) ==
    IF i >= Len(config.inConfs) THEN [config |-> config, world |-> W]
    ELSE ResolveInput(n, config, i, g, getConfiguredInputDesc(W, n, config, i, g))

\* One pass of that loop, r being what getConfiguredInputDesc gave.
ResolveInput(n, config, i, g, r) ==
    IF r.world.threw THEN [config |-> config, world |-> r.world]
    ELSE ResolveInputs(r.world, n, WithInDesc(config, i, MKLDNNMemoryDesc(r.desc)), i + 1, g)

\* The same loop over config.outConfs with getConfiguredOutputDesc.
ResolveOutputs(W, n, config, i, g) ==
    IF i >= Len(config.outConfs) THEN [config |-> config, world |-> W]
    ELSE ResolveOutput(n, config, i, g, getConfiguredOutputDesc(W, n, config, i, g))

ResolveOutput(n, config, i, g, r) ==
    IF r.world.threw THEN [config |-> config, world |-> r.world]
    ELSE ResolveOutputs(r.world, n, WithOutDesc(config, i, MKLDNNMemoryDesc(r.desc)), i + 1, g)

\* initOptimalPrimitiveDescriptor after its first loop, which left a, and after its
\* second, which left b.
OutputsThenDescriptor(n, g, a) ==
    IF a.world.threw THEN a.world
    ELSE ThenDescriptor(n, ResolveOutputs(a.world, n, a.config, 0, g))

ThenDescriptor(n, b) ==
    IF b.world.threw THEN b.world ELSE initDescriptor(b.world, n, b.config)

\* n.initOptimalPrimitiveDescriptor()
initOptimalPrimitiveDescriptor(W, n, g) ==
    LET selected_pd == SelectedIn(W, n)
    IN  IF selected_pd = NoDesc THEN Raise(W)
        ELSE IF ~isInitConfig(getConfig(selected_pd))
        THEN OutputsThenDescriptor(n, g, ResolveInputs(W, n, getConfig(selected_pd), 0, g))
        ELSE IF nodeType[n] \notin {"RNNSeq", "RNNCell"}
        THEN initDescriptor(W, n, getConfig(selected_pd))
        ELSE W

\* What the calls of the finalization leave alone. An error raised by one of them
\* ends the compilation of the graph, so no call follows it.
FinalStatic ==
    /\ ~threw
    /\ nodeAlive' = nodeAlive
    /\ UNCHANGED <<graphVars, selectedPrimitiveDescriptorIndex, implPriorities, nodeType, edgeDims, walk, stack>>
    /\ UNCHANGED <<cacheVars, filterVars, batchVars>>
    /\ UNCHANGED <<descs, edgeStatus, edgeMemory, edgeChildPort>>

\* The world a call leaves becomes the state.
Leave(W) ==
    /\ supportedPrimitiveDescriptors' = W.spd
    /\ constant' = W.constant
    /\ threw' = W.threw
    /\ outOfBounds' = W.oob

InitOptimalPrimitiveDescriptor(n, g) ==
    /\ nodeAlive[n]
    /\ \A m \in Nodes : ParentsAlive(m)
    /\ Leave(initOptimalPrimitiveDescriptor(World(supportedPrimitiveDescriptors, constant), n, g))
    /\ ret' = NoRet
    /\ last' = Op("initOptimalPrimitiveDescriptor", 0, n, 0)
    /\ FinalStatic

\* n.getConfiguredInputDesc(config, idx) on the node's selected config, as
\* initOptimalPrimitiveDescriptor calls it.
GetConfiguredInputDesc(n, idx, g) ==
    /\ nodeAlive[n]
    /\ \A m \in Nodes : ParentsAlive(m)
    /\ getSelectedPrimitiveDescriptor(n) # NoDesc
    /\ idx < Len(getSelectedPrimitiveDescriptor(n).inConfs)
    /\ \E r \in {getConfiguredInputDesc(World(supportedPrimitiveDescriptors, constant), n,
                                       getConfig(getSelectedPrimitiveDescriptor(n)), idx, g)} :
        /\ Leave(r.world)
        /\ ret' = IF r.world.threw THEN NoRet ELSE Ret(r.desc)
    /\ last' = Op("getConfiguredInputDesc", 0, n, idx)
    /\ FinalStatic

GetConfiguredOutputDesc(n, idx, g) ==
    /\ nodeAlive[n]
    /\ \A m \in Nodes : ParentsAlive(m)
    /\ getSelectedPrimitiveDescriptor(n) # NoDesc
    /\ idx < Len(getSelectedPrimitiveDescriptor(n).outConfs)
    /\ \E r \in {getConfiguredOutputDesc(World(supportedPrimitiveDescriptors, constant), n,
                                        getConfig(getSelectedPrimitiveDescriptor(n)), idx, g)} :
        /\ Leave(r.world)
        /\ ret' = IF r.world.threw THEN NoRet ELSE Ret(r.desc)
    /\ last' = Op("getConfiguredOutputDesc", 0, n, idx)
    /\ FinalStatic

\* The config initOptimalPrimitiveDescriptor hands to initDescriptor when every
\* port resolves to its own layout.
OwnConfig(config) ==
    LayerConfig([i \in DOMAIN config.inConfs |->
                    [config.inConfs[i] EXCEPT !.desc = OwnLayout(@, World(<<>>, <<>>)).desc]],
                [i \in DOMAIN config.outConfs |->
                    [config.outConfs[i] EXCEPT !.desc = OwnLayout(@, World(<<>>, <<>>)).desc]])

\* n.initDescriptor(config)
InitDescriptor(n) ==
    /\ nodeAlive[n]
    /\ \A m \in Nodes : ParentsAlive(m)
    /\ Leave(initDescriptor(World(supportedPrimitiveDescriptors, constant), n,
                            OwnConfig(getConfig(getSelectedPrimitiveDescriptor(n)))))
    /\ ret' = NoRet
    /\ last' = Op("initDescriptor", 0, n, 0)
    /\ FinalStatic

\* What a read past the end of a config list may give.
Garbage ==
    {[crash |-> TRUE, conf |-> DataConfig(-1, FALSE, NoTensor)],
     [crash |-> FALSE, conf |-> DataConfig(-1, FALSE, PortDesc("I8", <<2, 3>>, "nc", TRUE))]}

\* Port descriptors of the selected configs: Layout::ANY, plain, blocked with
\* undefined strides, and plain in another precision.
FinalPorts ==
    {PortDesc("FP32", <<2, 3>>, "ANY", FALSE), PortDesc("FP32", <<2, 3>>, "nc", TRUE),
     PortDesc("FP32", <<2, 3>>, "nC8c", FALSE), PortDesc("I8", <<2, 3>>, "nc", TRUE)}

\* Descriptors of the middle node: an implementation type, one input and one output
\* port with the in-place indices ip.
MiddleDescs(type, ip) ==
    {Desc(type, <<DataConfig(ip[1], FALSE, in)>>, <<DataConfig(ip[2], FALSE, out)>>) :
        in \in FinalPorts \ {PortDesc("I8", <<2, 3>>, "nc", TRUE)},
        out \in FinalPorts \ {PortDesc("I8", <<2, 3>>, "nc", TRUE)}}

\* The selected index of the middle node, the templates it re-enumerates, its type,
\* the ports recorded on the edge into it (of the producer, of the middle node), and
\* the in-place indices of its ports, of which at most one is in-place.
JitRef == <<JitImpl(1, 1), RefImpl(1, 1)>>
MiddleSetups ==
    {<<sel, <<>>, "Generic", <<0, 0>>, <<-1, -1>>>> : sel \in {-1, 0, 1}}
    \cup {<<0, <<>>, "Generic", ports, <<-1, -1>>>> : ports \in {<<1, 0>>, <<-1, 0>>, <<0, 1>>}}
    \cup {<<sel, <<Template(1, 1, impls)>>, "Generic", <<0, 0>>, <<-1, -1>>>> :
            sel \in {0, 1}, impls \in {<<RefImpl(1, 1)>>, <<JitImpl(1, 1)>>, JitRef}}
    \cup {<<0, templates, "Generic", <<0, 0>>, ip>> :
            templates \in {<<>>, <<Template(1, 1, JitRef)>>}, ip \in {<<-1, 0>>, <<0, -1>>}}
    \cup {<<0, <<Template(1, 1, <<>>)>>, "Generic", <<0, 0>>, <<-1, -1>>>>,
          <<0, <<>>, "RNNCell", <<0, 0>>, <<-1, -1>>>>}

\* The graph is the chain 1 -> Middle -> 3 with descriptors selected; the producer
\* has zero to two output ports, the middle node two descriptors with the same
\* config, the consumer one input port.
InitFinalize ==
    /\ edgeParent = [e \in Edges |-> IF e = 2 THEN Middle ELSE 1]
    /\ edgeChild = [e \in Edges |-> IF e = 2 THEN 3 ELSE Middle]
    /\ nodeAlive = [n \in Nodes |-> TRUE]
    /\ edgeAlive = [e \in Edges |-> TRUE]
    /\ parentEdges = [n \in Nodes |-> IF n = Middle THEN <<1>> ELSE IF n = 3 THEN <<2>> ELSE <<>>]
    /\ childEdges = [n \in Nodes |-> IF n = 1 THEN <<1>> ELSE IF n = Middle THEN <<2>> ELSE <<>>]
    /\ \E outs \in {<<>>} \cup {Confs(<<p>>) : p \in FinalPorts}
                  \cup {Confs(<<PortDesc("FP32", <<2, 3>>, "nC8c", TRUE),
                                PortDesc("I8", <<2, 3>>, "nc", TRUE)>>)},
          setup \in MiddleSetups,
          in3 \in {PortDesc("FP32", <<2, 3>>, "ANY", FALSE), PortDesc("FP32", <<2, 3>>, "nC8c", FALSE)} :
        /\ \E d \in MiddleDescs("ref_any", setup[5]) :
            supportedPrimitiveDescriptors =
                [n \in Nodes |-> IF n = 1 THEN <<Desc("ref", <<>>, outs)>>
                                 ELSE IF n = Middle
                                 THEN <<Desc("jit_avx2", d.inConfs, d.outConfs), d>>
                                 ELSE <<Desc("ref", Confs(<<in3>>), <<>>)>>]
        /\ selectedPrimitiveDescriptorIndex = [n \in Nodes |-> IF n = Middle THEN setup[1] ELSE 0]
        /\ descs = [n \in Nodes |-> IF n = Middle THEN setup[2] ELSE <<>>]
        /\ nodeType = [n \in Nodes |-> IF n = Middle THEN setup[3] ELSE "Generic"]
        /\ edgePort = [e \in Edges |-> IF e = 1 THEN setup[4][1] ELSE 0]
        /\ edgeChildPort = [e \in Edges |-> IF e = 1 THEN setup[4][2] ELSE 0]
    /\ implPriorities = [n \in Nodes |-> <<>>]
    /\ constant = [n \in Nodes |-> IF n = 1 THEN "NoConst" ELSE "Unknown"]
    /\ edgeDims = [e \in Edges |-> <<2, 3>>]
    /\ walk = NoWalk
    /\ stack = <<>>
    /\ CacheIdle /\ FilterIdle /\ BatchIdle
    /\ edgeStatus = [e \in Edges |-> "Uninitialized"]
    /\ edgeMemory = [e \in Edges |-> Null]
    /\ outOfBounds = FALSE
    /\ threw = FALSE
    /\ last = Op("init", 0, Null, 0)
    /\ ret = NoRet

NextFinalize ==
    \/ \E n \in Nodes, g \in Garbage : InitOptimalPrimitiveDescriptor(n, g)
    \/ \E n \in Nodes, idx \in {0, 1}, g \in Garbage : GetConfiguredInputDesc(n, idx, g)
    \/ \E n \in Nodes, idx \in {0, 1}, g \in Garbage : GetConfiguredOutputDesc(n, idx, g)
    \/ \E n \in Nodes : InitDescriptor(n)

SpecFinalize == InitFinalize /\ [][NextFinalize]_vars

\* ----------------------------------------- finalization, one call or pass a step
\* A call in progress: the function, where it stands, its node, its port (or the
\* loop index i of initOptimalPrimitiveDescriptor), the port num of the neighbour,
\* and the config it works on.
Frame(fn, at, n, idx, num, config) ==
    [fn |-> fn, at |-> at, n |-> n, idx |-> idx, num |-> num, config |-> config]

Top == Head(stack)

\* What a step leaves: the world, the calls still in progress, the value returned
\* to the innermost of them. An exception leaves every call in progress.
Become(W, calls, r) ==
    /\ Leave(W)
    /\ stack' = IF W.threw THEN <<>> ELSE calls
    /\ ret' = IF W.threw THEN NoRet ELSE r

StepStatic ==
    /\ ~threw
    /\ UNCHANGED <<graphVars, selectedPrimitiveDescriptorIndex, implPriorities, nodeType, edgeDims, walk>>
    /\ UNCHANGED <<cacheVars, filterVars, batchVars>>
    /\ UNCHANGED <<descs, edgeStatus, edgeMemory, edgeChildPort>>

Here == World(supportedPrimitiveDescriptors, constant)

\* n.initOptimalPrimitiveDescriptor() is entered with rest the calls in progress: a
\* config with an unresolved port starts the loop over the input ports, a resolved
\* one goes to initDescriptor at once.
EnterInitOptimal(W, n, rest) ==
    LET selected_pd == SelectedIn(W, n)
    IN  IF selected_pd = NoDesc THEN Become(Raise(W), rest, NoRet)
        ELSE IF ~isInitConfig(getConfig(selected_pd))
        THEN Become(W, <<Frame("initOptimalPrimitiveDescriptor", "inputs", n, 0, 0,
                                getConfig(selected_pd))>> \o rest, NoRet)
        ELSE IF nodeType[n] \notin {"RNNSeq", "RNNCell"}
        THEN Become(initDescriptor(W, n, getConfig(selected_pd)), rest, NoRet)
        ELSE Become(W, rest, NoRet)

\* The graph compiler calls n.initOptimalPrimitiveDescriptor().
BeginFinalization(n) ==
    /\ stack = <<>>
    /\ nodeAlive[n]
    /\ EnterInitOptimal(Here, n, <<>>)
    /\ last' = Op("initOptimalPrimitiveDescriptor", 0, n, 0)
    /\ StepStatic

\* One pass of the two loops of initOptimalPrimitiveDescriptor: the call for port
\* i, the assignment of what it returned, and initDescriptor(config) after the last
\* output port.
LoopPass ==
    /\ stack # <<>>
    /\ Top.fn = "initOptimalPrimitiveDescriptor"
    /\ LET list == IF Top.at = "inputs" THEN Top.config.inConfs ELSE Top.config.outConfs
       IN  IF ret # NoRet
           THEN Become(Here,
                       <<[Top EXCEPT !.idx = @ + 1,
                                     !.config = IF Top.at = "inputs"
                                                THEN WithInDesc(@, Top.idx, MKLDNNMemoryDesc(ret[1]))
                                                ELSE WithOutDesc(@, Top.idx, MKLDNNMemoryDesc(ret[1]))]>>
                       \o Tail(stack), NoRet)
           ELSE IF Top.idx < Len(list)
           THEN Become(Here,
                       <<Frame(IF Top.at = "inputs" THEN "getConfiguredInputDesc"
                                                    ELSE "getConfiguredOutputDesc",
                               "enter", Top.n, Top.idx, 0, Top.config)>> \o stack, NoRet)
           ELSE IF Top.at = "inputs"
           THEN Become(Here, <<[Top EXCEPT !.at = "outputs", !.idx = 0]>> \o Tail(stack), NoRet)
           ELSE Become(initDescriptor(Here, Top.n, Top.config), Tail(stack), NoRet)
    /\ last' = Op("initOptimalPrimitiveDescriptor", 0, Top.n, Top.idx)
    /\ StepStatic

\* getConfiguredInputDesc / getConfiguredOutputDesc up to the first read of the
\* neighbour's port, other being the neighbour, confs its port list and own the
\* port asked about. return getConfigured...Desc(config, inPlace) leaves the frame
\* nothing to do, so the call it makes takes its place.
EnterPort(own, edgeThrows, other, otherFn, portOf, g) ==
    IF ~isUninitTensorDesc(own.desc) THEN Become(Here, Tail(stack), Ret(own.desc))
    ELSE IF edgeThrows THEN Become(Raise(Here), Tail(stack), NoRet)
    ELSE IF SelectedIn(Here, other) = NoDesc THEN Become(Raise(Here), Tail(stack), NoRet)
    ELSE IF own.inPlace >= 0
    THEN Become(Here, <<Frame(otherFn, "enter", Top.n, own.inPlace, 0, Top.config)>>
                      \o Tail(stack), NoRet)
    ELSE LET confs == IF otherFn = "getConfiguredOutputDesc"
                      THEN SelectedIn(Here, other).outConfs
                      ELSE SelectedIn(Here, other).inConfs
             num == ResetPort(portOf, Len(confs))
             first == IF num < Len(confs) THEN confs[num + 1] ELSE g.conf
             W0 == IF num < Len(confs) THEN Here ELSE PastEnd(Here, g)
             waiting == <<[Top EXCEPT !.at = "again", !.num = num]>> \o Tail(stack)
         IN  IF W0.threw THEN Become(W0, waiting, NoRet)
             ELSE IF isUninitTensorDesc(first.desc) /\ first.inPlace >= 0
             THEN EnterInitOptimal(W0, other, waiting)
             ELSE Become(W0, waiting, NoRet)

\* The second read of the neighbour's port and the choice of the descriptor.
LeavePort(r) == Become(r.world, Tail(stack), Ret(r.desc))

GetInputStep(g) ==
    /\ stack # <<>>
    /\ Top.fn = "getConfiguredInputDesc"
    /\ IF Top.at = "enter"
       THEN EnterPort(Top.config.inConfs[Top.idx + 1], ParentEdgeAtThrows(Top.n, Top.idx),
                      IF ParentEdgeAtThrows(Top.n, Top.idx) THEN Top.n
                      ELSE getParent(getParentEdgeAt(Top.n, Top.idx)),
                      "getConfiguredOutputDesc",
                      IF ParentEdgeAtThrows(Top.n, Top.idx) THEN 0
                      ELSE getInputNum(getParentEdgeAt(Top.n, Top.idx)), g)
       ELSE LeavePort(ParentAgain(Here, Top.n, Top.config, Top.idx, Top.num, g))
    /\ last' = Op("getConfiguredInputDesc", 0, Top.n, Top.idx)
    /\ StepStatic

GetOutputStep(g) ==
    /\ stack # <<>>
    /\ Top.fn = "getConfiguredOutputDesc"
    /\ IF Top.at = "enter"
       THEN EnterPort(Top.config.outConfs[Top.idx + 1], ChildEdgeAtThrows(Top.n, Top.idx),
                      IF ChildEdgeAtThrows(Top.n, Top.idx) THEN Top.n
                      ELSE getChild(getChildEdgeAt(Top.n, Top.idx)),
                      "getConfiguredInputDesc",
                      IF ChildEdgeAtThrows(Top.n, Top.idx) THEN 0
                      ELSE getOutputNum(getChildEdgeAt(Top.n, Top.idx)), g)
       ELSE LeavePort(ChildAgain(Here, Top.n, Top.config, Top.idx, Top.num, g))
    /\ last' = Op("getConfiguredOutputDesc", 0, Top.n, Top.idx)
    /\ StepStatic

\* Ports of the selected configs: unresolved (Layout::ANY, or blocked with undefined
\* strides) or resolved, with an in-place index.
StepPorts ==
    {DataConfig(ip, FALSE, d) :
        ip \in {-1, 0},
        d \in {PortDesc("FP32", <<2, 3>>, "ANY", FALSE), PortDesc("FP32", <<2, 3>>, "nC8c", FALSE),
               PortDesc("FP32", <<2, 3>>, "nc", TRUE)}}

\* The chain 1 -> 2 -> 3, acyclic, every node with one selected descriptor whose
\* ports are those of its edges. A port is in-place only with a port it can name:
\* node 1 has no input port and node 3 no output port.
InitSteps ==
    /\ edgeParent = [e \in Edges |-> IF e = 2 THEN Middle ELSE 1]
    /\ edgeChild = [e \in Edges |-> IF e = 2 THEN 3 ELSE Middle]
    /\ nodeAlive = [n \in Nodes |-> TRUE]
    /\ edgeAlive = [e \in Edges |-> TRUE]
    /\ parentEdges = [n \in Nodes |-> IF n = Middle THEN <<1>> ELSE IF n = 3 THEN <<2>> ELSE <<>>]
    /\ childEdges = [n \in Nodes |-> IF n = 1 THEN <<1>> ELSE IF n = Middle THEN <<2>> ELSE <<>>]
    /\ \E out1 \in StepPorts, in2 \in StepPorts, out2 \in StepPorts, in3 \in StepPorts :
        /\ out1.inPlace = -1 /\ in3.inPlace = -1
        /\ supportedPrimitiveDescriptors =
               [n \in Nodes |-> IF n = 1 THEN <<Desc("ref", <<>>, <<out1>>)>>
                                ELSE IF n = Middle THEN <<Desc("ref", <<in2>>, <<out2>>)>>
                                ELSE <<Desc("ref", <<in3>>, <<>>)>>]
    /\ selectedPrimitiveDescriptorIndex = [n \in Nodes |-> 0]
    /\ descs = [n \in Nodes |-> <<>>]
    /\ nodeType = [n \in Nodes |-> "Generic"]
    /\ edgePort = [e \in Edges |-> 0]
    /\ edgeChildPort = [e \in Edges |-> 0]
    /\ implPriorities = [n \in Nodes |-> <<>>]
    /\ constant = [n \in Nodes |-> IF n = 1 THEN "NoConst" ELSE "Unknown"]
    /\ edgeDims = [e \in Edges |-> <<2, 3>>]
    /\ walk = NoWalk
    /\ stack = <<>>
    /\ CacheIdle /\ FilterIdle /\ BatchIdle
    /\ edgeStatus = [e \in Edges |-> "Uninitialized"]
    /\ edgeMemory = [e \in Edges |-> Null]
    /\ outOfBounds = FALSE
    /\ threw = FALSE
    /\ last = Op("init", 0, Null, 0)
    /\ ret = NoRet

NextSteps ==
    \/ \E n \in Nodes : BeginFinalization(n)
    \/ LoopPass
    \/ \E g \in Garbage : GetInputStep(g)
    \/ \E g \in Garbage : GetOutputStep(g)

\* The thread that runs the finalization keeps running.
SpecSteps == InitSteps /\ [][NextSteps]_vars /\ WF_vars(NextSteps)

\* ------------------------------- enumeration, filter, selection, finalization
\* The graph runs the four on the middle node of the chain in this order.
PipeEnumerate ==
    /\ last.op = "init"
    /\ InitSupportedPrimitiveDescriptors(Middle)

PipeFilter ==
    /\ last.op = "initSupportedPrimitiveDescriptors" /\ ~threw
    /\ FilterSupportedPrimitiveDescriptors(Middle)

\* Priority lists of the selection.
PipePriorities == {<<"jit_avx2", "ref_any", "unknown">>, <<"ref_any", "unknown", "jit_avx2">>}

PipeSelect ==
    /\ last.op = "filter" /\ ~threw
    /\ \E priority \in PipePriorities : SelectPreferPrimitiveDescriptor(Middle, priority)

PipeFinalize ==
    /\ last.op = "selectPrefer"
    /\ \E g \in Garbage : InitOptimalPrimitiveDescriptor(Middle, g)

PipeInitDescriptor ==
    /\ last.op = "selectPrefer"
    /\ InitDescriptor(Middle)

\* The templates of the middle node: one input and one output port.
PipeTemplates == {t \in TemplateLists : \A j \in DOMAIN t : t[j].inputNumbers = 1}

\* The chain 1 -> Middle -> 3 with its edges linked; the middle node has templates
\* and format filters, and no descriptor yet; its neighbours have theirs selected.
InitPipe ==
    /\ edgeParent = [e \in Edges |-> IF e = 2 THEN Middle ELSE 1]
    /\ edgeChild = [e \in Edges |-> IF e = 2 THEN 3 ELSE Middle]
    /\ nodeAlive = [n \in Nodes |-> TRUE]
    /\ edgeAlive = [e \in Edges |-> TRUE]
    /\ parentEdges = [n \in Nodes |-> IF n = Middle THEN <<1>> ELSE IF n = 3 THEN <<2>> ELSE <<>>]
    /\ childEdges = [n \in Nodes |-> IF n = 1 THEN <<1>> ELSE IF n = Middle THEN <<2>> ELSE <<>>]
    /\ edgePort = [e \in Edges |-> 0]
    /\ edgeChildPort = [e \in Edges |-> 0]
    /\ \E format \in {"nchw", "nChw8c"} :
        supportedPrimitiveDescriptors =
            [n \in Nodes |->
                IF n = 1 THEN <<Desc("ref", <<>>, Confs(<<PortDesc("FP32", <<2, 3>>, format, TRUE)>>))>>
                ELSE IF n = 3 THEN <<Desc("ref", Confs(<<PortDesc("FP32", <<2, 3>>, format, TRUE)>>), <<>>)>>
                ELSE <<>>]
    /\ selectedPrimitiveDescriptorIndex = [n \in Nodes |-> IF n = Middle THEN -1 ELSE 0]
    /\ implPriorities = [n \in Nodes |-> <<>>]
    /\ constant \in [Nodes -> {"NoConst", "Unknown"}]
    /\ constant[1] = "NoConst"
    /\ nodeType = [n \in Nodes |-> "Generic"]
    /\ edgeDims \in [Edges -> DimsChoices]
    /\ walk = NoWalk
    /\ stack = <<>>
    /\ CacheIdle /\ BatchIdle
    /\ \E templates \in PipeTemplates :
        descs = [n \in Nodes |-> IF n = Middle THEN templates ELSE <<>>]
    /\ \E hints \in {<<>>, <<"nChw8c">>, <<"nhwc">>} :
        inputMemoryFormatsFilter = [n \in Nodes |-> IF n = Middle THEN hints ELSE <<>>]
    /\ \E hints \in {<<>>, <<"nchw">>, <<"nChw8c">>, <<"nhwc">>} :
        outputMemoryFormatsFilter = [n \in Nodes |-> IF n = Middle THEN hints ELSE <<>>]
    /\ edgeStatus = [e \in Edges |-> "Uninitialized"]
    /\ edgeMemory = [e \in Edges |-> Null]
    /\ outOfBounds = FALSE
    /\ threw = FALSE
    /\ last = Op("init", 0, Null, 0)
    /\ ret = NoRet

NextPipe ==
    \/ PipeEnumerate
    \/ PipeFilter
    \/ PipeSelect
    \/ PipeFinalize
    \/ PipeInitDescriptor

SpecPipe == InitPipe /\ [][NextPipe]_vars

\* ------------------------------------------------ a chain processed in order
\* The chain A -> B -> C is nodes 1 -> 2 -> 3. Selection visits the nodes in that
\* order, then finalization does.
ChainSelect(n) ==
    /\ selectedPrimitiveDescriptorIndex[n] = -1
    /\ \A m \in Nodes : m < n => selectedPrimitiveDescriptorIndex[m] # -1
    /\ \E priority \in PriorityInputs : SelectPreferPrimitiveDescriptor(n, priority)

ChainFinalize(n) ==
    /\ IF n = 1 THEN last.op = "selectPrefer" /\ last.n = 3
       ELSE last.op = "initOptimalPrimitiveDescriptor" /\ last.n = n - 1
    /\ \E g \in Garbage : InitOptimalPrimitiveDescriptor(n, g)

\* Layouts of the chain's ports: plain, transposed and blocked.
ChainLayouts == {"nc", "cn", "nC8c"}

\* A offers one descriptor with output L1; B offers, in either order, a descriptor
\* with input and output L1 and one with input and output L2, of the same
\* implementation type; C offers one descriptor whose input is L2 with undefined
\* strides.
InitChain ==
    /\ edgeParent = [e \in Edges |-> IF e = 2 THEN 2 ELSE 1]
    /\ edgeChild = [e \in Edges |-> IF e = 2 THEN 3 ELSE 2]
    /\ nodeAlive = [n \in Nodes |-> TRUE]
    /\ edgeAlive = [e \in Edges |-> TRUE]
    /\ parentEdges = [n \in Nodes |-> IF n = 2 THEN <<1>> ELSE IF n = 3 THEN <<2>> ELSE <<>>]
    /\ childEdges = [n \in Nodes |-> IF n = 1 THEN <<1>> ELSE IF n = 2 THEN <<2>> ELSE <<>>]
    /\ edgePort = [e \in Edges |-> 0]
    /\ edgeChildPort = [e \in Edges |-> 0]
    /\ \E L1 \in ChainLayouts, L2 \in ChainLayouts, L1first \in BOOLEAN, p \in {"FP32", "I8"} :
        /\ L1 # L2
        /\ LET viaL1 == Desc("ref", Confs(Dense(<<L1>>)), Confs(Dense(<<L1>>)))
               viaL2 == Desc("ref", Confs(Dense(<<L2>>)), Confs(Dense(<<L2>>)))
           IN  supportedPrimitiveDescriptors =
                [n \in Nodes |->
                    IF n = 1 THEN <<Desc("ref", <<>>, Confs(Dense(<<L1>>)))>>
                    ELSE IF n = 2 THEN (IF L1first THEN <<viaL1, viaL2>> ELSE <<viaL2, viaL1>>)
                    ELSE <<Desc("ref", Confs(<<PortDesc(p, <<2, 3>>, L2, FALSE)>>), <<>>)>>]
    /\ selectedPrimitiveDescriptorIndex = [n \in Nodes |-> -1]
    /\ implPriorities = [n \in Nodes |-> <<>>]
    /\ constant = [n \in Nodes |-> IF n = 1 THEN "NoConst" ELSE "Unknown"]
    /\ nodeType = [n \in Nodes |-> "Generic"]
    /\ edgeDims = [e \in Edges |-> <<2, 3>>]
    /\ walk = NoWalk
    /\ stack = <<>>
    /\ CacheIdle /\ FilterIdle /\ BatchIdle /\ PlanIdle
    /\ threw = FALSE
    /\ last = Op("init", 0, Null, 0)
    /\ ret = NoRet

NextChain ==
    \/ \E n \in Nodes : ChainSelect(n)
    \/ \E n \in Nodes : ChainFinalize(n)

SpecChain == InitChain /\ [][NextChain]_vars

\* ============================================================ construction
\* std::string::substr(pos, len)
substr(str, pos, len) == SubSeq(str, pos + 1, Min(pos + len, Len(str)))

\* The lower-case letter of an upper-case one; any other character is itself.
LowerChar(c) ==
    CASE c = "A" -> "a" [] c = "B" -> "b" [] c = "C" -> "c" [] c = "D" -> "d"
      [] c = "E" -> "e" [] c = "F" -> "f" [] c = "G" -> "g" [] c = "H" -> "h"
      [] c = "I" -> "i" [] c = "J" -> "j" [] c = "K" -> "k" [] c = "L" -> "l"
      [] c = "M" -> "m" [] c = "N" -> "n" [] c = "O" -> "o" [] c = "P" -> "p"
      [] c = "Q" -> "q" [] c = "R" -> "r" [] c = "S" -> "s" [] c = "T" -> "t"
      [] c = "U" -> "u" [] c = "V" -> "v" [] c = "W" -> "w" [] c = "X" -> "x"
      [] c = "Y" -> "y" [] c = "Z" -> "z" [] OTHER -> c

RECURSIVE ToLower(_)
ToLower(str) ==
    IF str = "" THEN ""
    ELSE LowerChar(SubSeq(str, 1, 1)) \o ToLower(SubSeq(str, 2, Len(str)))

\* CaselessEq<std::string>()(a, b)
CaselessEq(a, b) == ToLower(a) = ToLower(b)

\* type_to_name_tbl: a caseless map, held here by the lower-case spelling of its keys.
type_to_name_tbl ==
    "unknown" :> "Unknown" @@ "input" :> "Input" @@ "const" :> "Input" @@
    "output" :> "Output" @@ "reorder" :> "Reorder" @@ "convolution" :> "Convolution" @@
    "relu" :> "Eltwise" @@ "gelu" :> "Eltwise" @@ "elu" :> "Eltwise" @@
    "sigmoid" :> "Eltwise" @@ "logistic" :> "Eltwise" @@ "tanh" :> "Eltwise" @@
    "relu6" :> "Eltwise" @@ "exp" :> "Eltwise" @@ "not" :> "Eltwise" @@
    "activation" :> "Eltwise" @@ "clamp" :> "Eltwise" @@ "swish" :> "Eltwise" @@
    "hswish" :> "Eltwise" @@ "mish" :> "Eltwise" @@ "hsigmoid" :> "Eltwise" @@
    "round" :> "Eltwise" @@ "scaleshift" :> "Eltwise" @@ "prelu" :> "Eltwise" @@
    "norm" :> "Lrn" @@ "lrn" :> "Lrn" @@ "pooling" :> "Pooling" @@
    "fullyconnected" :> "FullyConnected" @@ "innerproduct" :> "FullyConnected" @@
    "gemm" :> "Gemm" @@ "softmax" :> "SoftMax" @@ "split" :> "Split" @@
    "slice" :> "Split" @@ "concat" :> "Concatenation" @@
    "deconvolution" :> "Deconvolution" @@ "eltwise" :> "Eltwise" @@ "mod" :> "Eltwise" @@
    "power" :> "Eltwise" @@ "reshape" :> "Reshape" @@ "tile" :> "Tile" @@
    "simplernms" :> "SimplerNMS" @@ "roialign" :> "ROIAlign" @@
    "roipooling" :> "ROIPooling" @@ "batchnormalization" :> "BatchNormalization" @@
    "flatten" :> "Flatten" @@ "pad" :> "Pad" @@ "permute" :> "Permute" @@
    "stridedslice" :> "StridedSlice" @@ "copy" :> "Copy" @@ "lstmcell" :> "RNNCell" @@
    "grucell" :> "RNNCell" @@ "rnncell" :> "RNNCell" @@ "lstmsequence" :> "RNNSeq" @@
    "grusequence" :> "RNNSeq" @@ "rnnsequence" :> "RNNSeq" @@ "quantize" :> "Quantize" @@
    "fakequantize" :> "Quantize" @@ "binaryconvolution" :> "BinaryConvolution" @@
    "deformableconvolution" :> "DeformableConvolution" @@
    "tensoriterator" :> "TensorIterator" @@ "loop" :> "TensorIterator" @@
    "memoryinput" :> "MemoryInput" @@ "memory" :> "MemoryOutput" @@
    "convert" :> "Convert" @@ "mvn" :> "MVN" @@ "normalize" :> "Normalize" @@
    "scatterupdate" :> "ScatterUpdate" @@
    "scatterelementsupdate" :> "ScatterElementsUpdate" @@
    "scatterndupdate" :> "ScatterNDUpdate" @@ "interpolate" :> "Interpolate" @@
    "reduceand" :> "ReduceAnd" @@ "reducel1" :> "ReduceL1" @@ "reducel2" :> "ReduceL2" @@
    "reducelogsum" :> "ReduceLogSum" @@ "reducelogsumexp" :> "ReduceLogSumExp" @@
    "reducemax" :> "ReduceMax" @@ "reducemean" :> "ReduceMean" @@
    "reducemin" :> "ReduceMin" @@ "reduceor" :> "ReduceOr" @@
    "reduceprod" :> "ReduceProd" @@ "reducesum" :> "ReduceSum" @@
    "reducesumsquare" :> "ReduceSumSquare" @@ "erf" :> "Eltwise"

TypeFromNameMutantExact(type) ==
    IF type \in DOMAIN type_to_name_tbl THEN type_to_name_tbl[type] ELSE "Unknown"
TypeFromName(type) ==
    IF ToLower(type) \in DOMAIN type_to_name_tbl THEN type_to_name_tbl[ToLower(type)]
    ELSE "Unknown"

\* The layer types that may declare no output data.
NoOutputTypesMutantExact(type) ==
    type \in {"memory", "memoryinput", "output", "reorder", "convert"}
NoOutputTypes(type) ==
    \E name \in {"memory", "memoryinput", "output", "reorder", "convert"} : CaselessEq(type, name)

\* A CNNLayer: its type, the dims of its output and input data, its
\* PrimitivesPriority parameter and the memory format strings of its ngraph node. A
\* comma-separated string is held as the entries getline(stream, str, ',') yields
\* from it, in order; NoParam is an absent parameter (for the format strings: no
\* ngraph node or an empty string).
NoParam == <<"-">>
Layer(type, outData, insData, priority, inFormats, outFormats) ==
    [type |-> type, outData |-> outData, insData |-> insData, priority |-> priority,
     inputMemoryFormats |-> inFormats, outputMemoryFormats |-> outFormats]

\* What a parsing loop leaves: the list built and whether it raised.
Parsed(list, t) == [list |-> list, threw |-> t]

\* while (getline(stream, str, ',')) of PrimitivesPriority, from entry i (1-based) on.
RECURSIVE ParsePrioritiesMutantKeepAll(_, _, _)
ParsePrioritiesMutantKeepAll(entries, i, list) ==
    IF i > Len(entries) THEN Parsed(list, FALSE)
    ELSE LET str == entries[i]
             pushed == Append(list, parse_impl_name(str))
         IN  IF parse_impl_name(str) = "unknown" /\ str # "cpu:unknown"
                /\ substr(str, 0, 4) = "cpu:"
             THEN Parsed(pushed, TRUE)
             ELSE ParsePrioritiesMutantKeepAll(entries, i + 1, pushed)
RECURSIVE ParsePriorities(_, _, _)
ParsePriorities(entries, i, list) ==
    IF i > Len(entries) THEN Parsed(list, FALSE)
    ELSE LET str == entries[i]
         IN  IF substr(str, 0, 4) # "cpu:" THEN ParsePriorities(entries, i + 1, list)
             ELSE LET pushed == Append(list, parse_impl_name(str))
                  IN  IF parse_impl_name(str) = "unknown" /\ str # "cpu:unknown"
                      THEN Parsed(pushed, TRUE)
                      ELSE ParsePriorities(entries, i + 1, pushed)

\* mkldnn::utils::str2fmt: the format tag a token names; a token that names no
\* known format is rejected.
FormatTags == {"nchw", "nhwc", "nChw8c"}
str2fmt(str) == IF str \in FormatTags THEN str ELSE "rejected"

\* while (getline(stream, str, ',')) of a memory format string, from entry i on.
RECURSIVE ParseFormatsMutantSwallow(_, _, _)
ParseFormatsMutantSwallow(entries, i, list) ==
    IF i > Len(entries) THEN Parsed(list, FALSE)
    ELSE LET str == entries[i]
         IN  IF substr(str, 0, 4) # "cpu:" THEN ParseFormatsMutantSwallow(entries, i + 1, list)
             ELSE LET fmt == str2fmt(substr(str, 4, Len(str)))
                  IN  IF fmt = "rejected" THEN ParseFormatsMutantSwallow(entries, i + 1, list)
                      ELSE ParseFormatsMutantSwallow(entries, i + 1, Append(list, fmt))
RECURSIVE ParseFormats(_, _, _)
ParseFormats(entries, i, list) ==
    IF i > Len(entries) THEN Parsed(list, FALSE)
    ELSE LET str == entries[i]
         IN  IF substr(str, 0, 4) # "cpu:" THEN ParseFormats(entries, i + 1, list)
             ELSE LET fmt == str2fmt(substr(str, 4, Len(str)))
                  IN  IF fmt = "rejected" THEN Parsed(list, TRUE)
                      ELSE ParseFormats(entries, i + 1, Append(list, fmt))

Entries(param) == IF param = NoParam THEN <<>> ELSE param

\* MKLDNNNode::MKLDNNNode(layer, eng, w_cache): whether construction raised, and the
\* fields of the node it leaves.
Constructed(t, outs, ins, priorities, inFilter, outFilter) ==
    [threw |-> t, outDims |-> outs, inDims |-> ins, implPriorities |-> priorities,
     inputMemoryFormatsFilter |-> inFilter, outputMemoryFormatsFilter |-> outFilter]
Failed == Constructed(TRUE, <<>>, <<>>, <<>>, <<>>, <<>>)

MKLDNNNode(layer) ==
    IF layer.outData = <<>> /\ ~NoOutputTypes(layer.type) THEN Failed
    ELSE LET priorities == ParsePriorities(Entries(layer.priority), 1, <<>>)
         IN  IF priorities.threw THEN Failed
             ELSE LET inFilter == ParseFormats(Entries(layer.inputMemoryFormats), 1, <<>>)
                  IN  IF inFilter.threw THEN Failed
                      ELSE LET outFilter == ParseFormats(Entries(layer.outputMemoryFormats), 1, <<>>)
                           IN  IF outFilter.threw THEN Failed
                               ELSE Constructed(FALSE, layer.outData, layer.insData,
                                                priorities.list, inFilter.list, outFilter.list)

\* The nodes are constructed one after the other, up to node LastBuilt. A
\* construction that raises leaves no node.
LastBuilt == 2

Construct(n, layer) ==
    /\ ~nodeAlive[n]
    /\ n <= LastBuilt
    /\ \A m \in Nodes : m < n => nodeAlive[m]
    /\ LET node == MKLDNNNode(layer)
       IN  /\ threw' = node.threw
           /\ IF node.threw
              THEN UNCHANGED <<nodeAlive, selectedPrimitiveDescriptorIndex, implPriorities,
                               constant, nodeType, filterVars, inDims, outDims>>
              ELSE /\ nodeAlive' = [nodeAlive EXCEPT ![n] = TRUE]
                   /\ selectedPrimitiveDescriptorIndex' =
                        [selectedPrimitiveDescriptorIndex EXCEPT ![n] = -1]
                   /\ implPriorities' = [implPriorities EXCEPT ![n] = node.implPriorities]
                   /\ constant' = [constant EXCEPT ![n] = "Unknown"]
                   /\ nodeType' = [nodeType EXCEPT ![n] = TypeFromName(layer.type)]
                   /\ inputMemoryFormatsFilter' =
                        [inputMemoryFormatsFilter EXCEPT ![n] = node.inputMemoryFormatsFilter]
                   /\ outputMemoryFormatsFilter' =
                        [outputMemoryFormatsFilter EXCEPT ![n] = node.outputMemoryFormatsFilter]
                   /\ inDims' = [inDims EXCEPT ![n] = node.inDims]
                   /\ outDims' = [outDims EXCEPT ![n] = node.outDims]
    /\ last' = Op("MKLDNNNode", 0, n, layer)
    /\ ret' = NoRet
    /\ UNCHANGED <<edgeParent, edgeChild, edgeAlive, parentEdges, childEdges, edgePort>>
    /\ UNCHANGED <<supportedPrimitiveDescriptors, edgeDims, walk, stack, cacheVars, dynBatchLim, primArgs>>
    /\ UNCHANGED planVars

\* Layer type names in several spellings.
LayerTypeNames ==
    {"Memory", "MEMORYINPUT", "output", "Reorder", "conVert", "Convolution", "relu",
     "Outputs", "Reshape", "ReLU", "GELU", "gelu", "Sigmoid", "TanH", "Swish", "SWISH"}

\* PrimitivesPriority parameters.
PriorityParams ==
    {NoParam, <<>>, <<"cpu:ref", "cpu:jit_avx2">>, <<"cpu:jit_avx2", "gpu:jit", "cpu:ref">>,
     <<"ref", "", "cpu:unknown", "cpu:ref_any">>, <<"cpu:foo">>,
     <<"cpu:ref", "cpu:foo", "cpu:jit_avx2">>, <<"cpu", "Cpu:ref", "gpu:foo">>}

\* Memory format strings.
FormatParams == {NoParam, <<"cpu:nchw", "nhwc", "cpu:nChw8c">>, <<"cpu:nchw", "cpu:foo">>}

Layers ==
    {Layer(type, outData, <<<<2, 3>>>>, NoParam, NoParam, NoParam) :
        type \in LayerTypeNames, outData \in {<<>>, <<<<2, 3>>>>, <<<<4, 3>>, <<2>>>>}}
    \cup {Layer("Convolution", <<<<2, 3>>>>, <<<<2, 3>>, <<3>>>>, priority, NoParam, NoParam) :
            priority \in PriorityParams}
    \cup {Layer("Output", <<>>, <<<<2, 3>>>>, <<"cpu:ref">>, inFormats, outFormats) :
            inFormats \in FormatParams, outFormats \in FormatParams}

\* No node is constructed yet; the storage a node will occupy holds no edges, and
\* its scalar fields hold whatever was there.
InitConstruct ==
    /\ edgeParent = [e \in Edges |-> Null]
    /\ edgeChild = [e \in Edges |-> Null]
    /\ nodeAlive = [n \in Nodes |-> FALSE]
    /\ edgeAlive = [e \in Edges |-> FALSE]
    /\ parentEdges = [n \in Nodes |-> <<>>]
    /\ childEdges = [n \in Nodes |-> <<>>]
    /\ edgePort = [e \in Edges |-> 0]
    /\ supportedPrimitiveDescriptors = [n \in Nodes |-> <<>>]
    /\ \E index \in {-1, 0} : selectedPrimitiveDescriptorIndex = [n \in Nodes |-> index]
    /\ implPriorities = [n \in Nodes |-> <<>>]
    /\ ConstIdle /\ CacheIdle /\ FilterIdle /\ BatchIdle /\ PlanIdle
    /\ threw = FALSE
    /\ last = Op("init", 0, Null, 0)
    /\ ret = NoRet

NextConstruct == \E n \in Nodes, layer \in Layers : Construct(n, layer)

SpecConstruct == InitConstruct /\ [][NextConstruct]_vars

\* ------------------------------------------------- prepareMemory in a graph
\* What an edge may hold: no memory object, a memory object whose primitive was
\* never created, an allocated memory.
EdgeMemories(e) ==
    {Memory(Null, NoTensor), Memory(Null, PortDesc("FP32", <<2, 3>>, "nchw", TRUE)),
     Memory(e, PortDesc("FP32", <<2, 3>>, "nchw", TRUE))}

\* A chain 1 -> 2 -> 3 over edges 1 and 2, both linked; edge 3, a second edge from
\* 1 to 2, is linked later. Node 2 bears the weights. Edge 2 may have expired.
InitPrepare ==
    /\ edgeParent = <<1, 2, 1>>
    /\ edgeChild = <<2, 3, 2>>
    /\ nodeAlive = [n \in Nodes |-> TRUE]
    /\ edgeAlive \in {<<TRUE, TRUE, TRUE>>, <<TRUE, FALSE, TRUE>>}
    /\ parentEdges = <<<<>>, <<1>>, <<2>>>>
    /\ childEdges = <<<<1>>, <<2>>, <<>>>>
    /\ edgePort = [e \in Edges |-> 0]
    /\ supportedPrimitiveDescriptors = [n \in Nodes |-> <<>>]
    /\ selectedPrimitiveDescriptorIndex = [n \in Nodes |-> -1]
    /\ implPriorities = [n \in Nodes |-> <<>>]
    /\ ConstIdle /\ FilterIdle /\ BatchIdle
    /\ descs = [n \in Nodes |-> <<>>]
    /\ edgeStatus = [e \in Edges |-> "Uninitialized"]
    /\ edgeMemory \in {<<m1, m2, m3>> : m1 \in EdgeMemories(1), m2 \in EdgeMemories(2),
                                       m3 \in {Memory(Null, NoTensor),
                                               Memory(3, PortDesc("FP32", <<2, 3>>, "nchw", TRUE))}}
    /\ edgeChildPort = [e \in Edges |-> 0]
    /\ outOfBounds = FALSE
    /\ nodeName = [n \in Nodes |-> "w"]
    /\ internalBlobs \in {<<<<>>, blobs, <<>>>> : blobs \in {<<Blob(4, 1)>>, <<Blob(4, 3), Blob(8, 1)>>}}
    /\ cacheOf \in {<<"shared", c, "shared">> : c \in {"shared", "null"}}
    /\ internalBlobMemory = [n \in Nodes |-> <<>>]
    /\ weightCache = <<>>
    /\ buffers = <<>>
    /\ pc = [n \in Nodes |-> [at |-> "idle", i |-> 0, ptr |-> Null, calls |-> 0]]
    /\ guard = Null
    /\ threw = FALSE
    /\ last = Op("init", 0, Null, 0)
    /\ ret = NoRet

NextPrepare ==
    \/ \E e \in Edges : LinkEdge(e)
    \/ NextCache

SpecPrepare == InitPrepare /\ [][NextPrepare]_vars

\* ------------------------------------------------------ createInternalBlob
\* At most MaxMerged nodes merged with the node.
MaxMerged == 2

\* The cnnLayer of a node as createInternalBlob sees it: whether it is a
\* WeightableLayer, whether the blob asked for (_weights or _biases) is there, and
\* the byte size of that blob.
WLayer(weightable, present, byteSize) ==
    [weightable |-> weightable, present |-> present, byteSize |-> byteSize]

\* sizeof the element type of the internal blob: int8_t for BIN and I8, int32_t
\* for I32, int16_t for BF16, float otherwise.
ElementSize(precision) ==
    IF precision \in {"BIN", "I8"} THEN 1
    ELSE IF precision = "BF16" THEN 2
    ELSE 4

RECURSIVE Product(_)
Product(dims) == IF dims = <<>> THEN 1 ELSE Head(dims) * Product(Tail(dims))

\* internalBlob->byteSize() after allocate()
IntBuffSize(precision, dims) == Product(dims) * ElementSize(precision)

\* What fillInternalBlob leaves: whether it raised, and the copies it made, each
\* with the position in the internal buffer it wrote at, its length and the layer
\* (0 the node's own, k the k-th merged node's) it read from.
Filled(t, copies) == [threw |-> t, copies |-> copies]
Copy(at, len, from) == [at |-> at, len |-> len, from |-> from]

\* checkSize(dst_size, src_size) raises.
checkSizeMutantSwapped(dst_size, src_size) == src_size < dst_size
checkSize(dst_size, src_size) == dst_size < src_size

\* for (const auto &merged : getMergeWith()), from the k-th merged node on: data
\* is the write position, offset the bytes counted so far.
RECURSIVE MergedLoop(_, _, _, _, _, _)
MergedLoop(merged, k, data, offset, intBuffSize, copies) ==
    IF k > Len(merged) THEN Filled(FALSE, copies)
    ELSE IF ~merged[k].weightable \/ ~merged[k].present THEN Filled(TRUE, copies)
    ELSE IF checkSize(intBuffSize, offset + merged[k].byteSize)
    THEN Filled(TRUE, copies)
    ELSE MergedLoop(merged, k + 1, data + merged[k].byteSize, offset + merged[k].byteSize,
                    intBuffSize, Append(copies, Copy(data, merged[k].byteSize, k)))

\* fillInternalBlob(data, intBuffSize)
fillInternalBlob(own, merged, intBuffSize) ==
    IF checkSize(intBuffSize, own.byteSize) THEN Filled(TRUE, <<>>)
    ELSE MergedLoop(merged, 1, own.byteSize, own.byteSize, intBuffSize,
                    <<Copy(0, own.byteSize, 0)>>)

\* MKLDNNNode::createInternalBlob(dims, weights, isGrouped) on a node whose layer
\* is own and whose merged nodes' layers are merged; precision is the precision
\* of the node's blob.
createInternalBlob(own, merged, precision, dims) ==
    IF ~own.weightable \/ ~own.present THEN Filled(TRUE, <<>>)
    ELSE fillInternalBlob(own, merged, IntBuffSize(precision, dims))

\* The arguments of a call and the layers it reads.
BlobCall(own, merged, precision, dims) ==
    [own |-> own, merged |-> merged, precision |-> precision, dims |-> dims]

\* The call of node n that is about to be made is made: the blob returned carries
\* its byte size and the copies made into it. The call changes nothing of the node.
CreateInternalBlob(n) ==
    /\ nodeAlive[n]
    /\ last.op = "call" /\ last.n = n
    /\ LET blob == createInternalBlob(last.k.own, last.k.merged, last.k.precision,
                                      last.k.dims)
       IN  /\ threw' = blob.threw
           /\ ret' = IF blob.threw THEN NoRet
                     ELSE Ret([byteSize |-> IntBuffSize(last.k.precision, last.k.dims),
                               copies |-> blob.copies])
    /\ last' = Op("createInternalBlob", 0, n, last.k)
    /\ UNCHANGED <<graphVars, selectVars, constVars, cacheVars, filterVars, batchVars,
                   planVars>>

\* The layers: not weightable, without the blob, with a blob of 0, 2 or 4 bytes.
WLayers ==
    {WLayer(FALSE, FALSE, 0), WLayer(TRUE, FALSE, 0)}
    \cup {WLayer(TRUE, TRUE, byteSize) : byteSize \in {0, 2, 4}}

InitBlob ==
    /\ edgeParent = <<1, 2, 1>>
    /\ edgeChild = <<2, 3, 2>>
    /\ nodeAlive = [n \in Nodes |-> TRUE]
    /\ edgeAlive = [e \in Edges |-> TRUE]
    /\ parentEdges = [n \in Nodes |-> <<>>]
    /\ childEdges = [n \in Nodes |-> <<>>]
    /\ edgePort = [e \in Edges |-> 0]
    /\ supportedPrimitiveDescriptors = [n \in Nodes |-> <<>>]
    /\ selectedPrimitiveDescriptorIndex = [n \in Nodes |-> -1]
    /\ implPriorities = [n \in Nodes |-> <<>>]
    /\ ConstIdle /\ CacheIdle /\ FilterIdle /\ BatchIdle /\ PlanIdle
    /\ threw = FALSE
    /\ \E own \in WLayers, merged \in SeqsUpTo(WLayers, MaxMerged),
          precision \in {"I8", "BF16", "FP32"},
          dims \in {<<2>>, <<2, 2>>, <<2, 0>>, <<3, 2>>} :
            last = Op("call", 0, Middle, BlobCall(own, merged, precision, dims))
    /\ ret = NoRet

NextBlob == \E n \in Nodes : CreateInternalBlob(n)

SpecBlob == InitBlob /\ [][NextBlob]_vars

\* ------------------------------------------------------------ NodesFactory
\* The factory's registry and what the constructed nodes answer to created(extMgr):
\* whether a constructor is registered under Generic, the types a built-in
\* constructor is registered under, and the answer of a generic and of a built-in
\* node.
Registry(generic, registered, genericCreated, builtinCreated) ==
    [generic |-> generic, registered |-> registered,
     genericCreated |-> genericCreated, builtinCreated |-> builtinCreated]

\* createNodeIfRegistered(MKLDNNPlugin, type, layer, eng, w_cache): nullptr when no
\* constructor is registered under type, else the node the constructor leaves
\* (which raises when the constructor does).
NullNode == [threw |-> FALSE, null |-> TRUE]
createNodeIfRegistered(isRegistered, layer) ==
    IF ~isRegistered THEN NullNode
    ELSE [threw |-> MKLDNNNode(layer).threw, null |-> FALSE]

\* What create leaves: whether it raised and the registration the returned node
\* was built under ("none" when it raised).
Created(t, via) == [threw |-> t, via |-> via]

\* The second attempt of NodesFactory::create, under TypeFromName(layer->type).
BuiltIn(layer, reg, ol) ==
    IF ol.threw THEN Created(TRUE, "none")
    ELSE IF ~ol.null /\ reg.builtinCreated THEN Created(FALSE, TypeFromName(layer.type))
    ELSE Created(TRUE, "none")

\* NodesFactory::create after the first attempt, which left ol.
AfterGeneric(layer, reg, ol) ==
    IF ol.threw THEN Created(TRUE, "none")
    ELSE IF ~ol.null /\ reg.genericCreated THEN Created(FALSE, "Generic")
    ELSE BuiltIn(layer, reg,
                 createNodeIfRegistered(TypeFromName(layer.type) \in reg.registered, layer))

\* MKLDNNNode::NodesFactory::create(layer, eng, extMgr, w_cache)
NodesFactory_createMutantBuiltInFirst(layer, reg) ==
    LET first == BuiltIn(layer, reg,
                         createNodeIfRegistered(TypeFromName(layer.type) \in reg.registered,
                                                layer))
    IN  IF ~first.threw THEN first
        ELSE AfterGeneric(layer, [reg EXCEPT !.registered = {}],
                          createNodeIfRegistered(reg.generic, layer))
NodesFactory_create(layer, reg) == AfterGeneric(layer, reg, createNodeIfRegistered(reg.generic, layer))

\* A call of the factory: the node returned occupies n.
Create(n, layer, reg) ==
    /\ ~nodeAlive[n]
    /\ n <= LastBuilt
    /\ \A m \in Nodes : m < n => nodeAlive[m]
    /\ LET made == NodesFactory_create(layer, reg)
           node == MKLDNNNode(layer)
       IN  /\ threw' = made.threw
           /\ ret' = IF made.threw THEN NoRet ELSE Ret([node |-> n, via |-> made.via])
           /\ IF made.threw
              THEN UNCHANGED <<nodeAlive, selectedPrimitiveDescriptorIndex, implPriorities,
                               constant, nodeType, filterVars, inDims, outDims>>
              ELSE /\ nodeAlive' = [nodeAlive EXCEPT ![n] = TRUE]
                   /\ selectedPrimitiveDescriptorIndex' =
                        [selectedPrimitiveDescriptorIndex EXCEPT ![n] = -1]
                   /\ implPriorities' = [implPriorities EXCEPT ![n] = node.implPriorities]
                   /\ constant' = [constant EXCEPT ![n] = "Unknown"]
                   /\ nodeType' = [nodeType EXCEPT ![n] = TypeFromName(layer.type)]
                   /\ inputMemoryFormatsFilter' =
                        [inputMemoryFormatsFilter EXCEPT ![n] = node.inputMemoryFormatsFilter]
                   /\ outputMemoryFormatsFilter' =
                        [outputMemoryFormatsFilter EXCEPT ![n] = node.outputMemoryFormatsFilter]
                   /\ inDims' = [inDims EXCEPT ![n] = node.inDims]
                   /\ outDims' = [outDims EXCEPT ![n] = node.outDims]
    /\ last' = Op("NodesFactory::create", 0, n, [layer |-> layer, reg |-> reg])
    /\ UNCHANGED <<edgeParent, edgeChild, edgeAlive, parentEdges, childEdges, edgePort>>
    /\ UNCHANGED <<supportedPrimitiveDescriptors, edgeDims, walk, stack, cacheVars, dynBatchLim, primArgs>>
    /\ UNCHANGED planVars

\* The registries tried: nothing registered, the built-in types only, Generic too.
BuiltInTypes == {"Convolution", "Eltwise", "Output"}
Registries ==
    {Registry(FALSE, {}, FALSE, FALSE), Registry(TRUE, {}, TRUE, FALSE),
     Registry(TRUE, {}, FALSE, FALSE)}
    \cup {Registry(generic, BuiltInTypes, FALSE, builtinCreated) :
            generic \in BOOLEAN, builtinCreated \in BOOLEAN}
    \cup {Registry(TRUE, BuiltInTypes, TRUE, TRUE)}

\* The layers handed to the factory: accepted and rejected by the constructor, of
\* registered types, of a type no constructor is registered under and of no known
\* type.
FactoryLayers ==
    {Layer(type, outData, <<<<2, 3>>>>, NoParam, NoParam, NoParam) :
        type \in {"Convolution", "ReLU", "output", "Reshape", "Outputs"},
        outData \in {<<>>, <<<<2, 3>>>>}}
    \cup {Layer("Convolution", <<<<2, 3>>>>, <<<<2, 3>>, <<3>>>>, <<"cpu:foo">>, NoParam, NoParam),
          Layer("gelu", <<<<2, 3>>>>, <<<<2, 3>>>>, <<"cpu:ref">>, NoParam,
                <<"cpu:nchw", "cpu:foo">>)}

NextFactory ==
    \E n \in Nodes, layer \in FactoryLayers, reg \in Registries : Create(n, layer, reg)

SpecFactory == InitConstruct /\ [][NextFactory]_vars

\* ================================================================= claims
\* What the step just taken was.
Did(name) == last'.op = name
ParentList(e) == childEdges[edgeParent[e]]
ChildList(e) == parentEdges[edgeChild[e]]

\* C1: after removeEdge(e) on a live edge e that is in both lists exactly once,
\* neither e.parent.childEdges nor e.child.parentEdges contains e (also when other
\* edges between the same two nodes were added before e).
C1_RemoveEdgeUnlinksThatEdge ==
    [][\A e \in Edges :
        (Did("removeEdge") /\ last'.e = e /\ EdgeUsable(e)
            /\ Count(e, ParentList(e)) = 1 /\ Count(e, ChildList(e)) = 1)
        => (~Contains(childEdges'[edgeParent[e]], e)
            /\ ~Contains(parentEdges'[edgeChild[e]], e))]_vars

\* C2: addEdge(e) on a live edge with live endpoints appends e as the last entry of
\* e.parent.childEdges and of e.child.parentEdges; each list grows by exactly one
\* entry, its old entries stay in front, and no other list of any node changes.
C2_AddEdgeAppendsToBoth ==
    [][\A e \in Edges :
        (Did("addEdge") /\ last'.e = e /\ EdgeUsable(e))
        => LET p == edgeParent[e]
               c == edgeChild[e]
           IN  /\ Len(childEdges'[p]) = Len(childEdges[p]) + 1
               /\ Len(parentEdges'[c]) = Len(parentEdges[c]) + 1
               /\ childEdges'[p][Len(childEdges'[p])] = e
               /\ parentEdges'[c][Len(parentEdges'[c])] = e
               /\ SubSeq(childEdges'[p], 1, Len(childEdges[p])) = childEdges[p]
               /\ SubSeq(parentEdges'[c], 1, Len(parentEdges[c])) = parentEdges[c]
               /\ \A n \in Nodes \ {p} : childEdges'[n] = childEdges[n]
               /\ \A n \in Nodes \ {c} : parentEdges'[n] = parentEdges[n]]_vars

\* C2 witness: addEdge has appended a live edge behind an entry that was already there.
C2_Witness ==
    /\ last.op = "addEdge"
    /\ EdgeUsable(last.e)
    /\ Len(ParentList(last.e)) >= 2
    /\ ParentList(last.e)[Len(ParentList(last.e))] = last.e
    /\ ChildList(last.e)[Len(ChildList(last.e))] = last.e

\* s with at most one entry taken out, the others in their old order.
AtMostOneErased(old, new) == new = old \/ \E i \in 1..Len(old) : new = Erase(old, i)

\* C3: one removeEdge call takes at most one entry out of the child's parentEdges and
\* at most one out of the parent's childEdges, whatever the number of entries that
\* join the same two nodes; the remaining entries keep their order and the lists of
\* all other nodes are unchanged.
C3_RemoveEdgeErasesAtMostOne ==
    [][\A e \in Edges :
        (Did("removeEdge") /\ last'.e = e)
        => /\ AtMostOneErased(ChildList(e), parentEdges'[edgeChild[e]])
           /\ AtMostOneErased(ParentList(e), childEdges'[edgeParent[e]])
           /\ \A n \in Nodes \ {edgeChild[e]} : parentEdges'[n] = parentEdges[n]
           /\ \A n \in Nodes \ {edgeParent[e]} : childEdges'[n] = childEdges[n]]_vars

\* C3 witness: removeEdge ran while several entries joined the edge's endpoints, and
\* one of them is still there.
C3_Witness ==
    /\ last.op = "removeEdge"
    /\ last.k >= 2
    /\ EdgeUsable(last.e)
    /\ Len(ChildList(last.e)) >= 1
    /\ Len(ParentList(last.e)) >= 1

\* C4: symmetric visibility: every edge whose endpoints exist is in its parent's
\* childEdges exactly as often as it is in its child's parentEdges.
C4_SymmetricVisibility ==
    \A e \in Edges :
        (nodeAlive[edgeParent[e]] /\ nodeAlive[edgeChild[e]])
        => Count(e, ParentList(e)) = Count(e, ChildList(e))

\* C4 witness: a removeEdge call on an edge left that edge linked, in both lists.
C4_Witness ==
    /\ last.op = "removeEdge"
    /\ EdgeUsable(last.e)
    /\ last.k >= 2
    /\ Count(last.e, ParentList(last.e)) = 1
    /\ Count(last.e, ChildList(last.e)) = 1

Touches(x, n) == edgeParent[x] = n \/ edgeChild[x] = n
AllUsable(s) == \A i \in 1..Len(s) : EdgeUsable(s[i])

\* C5: after n.remove(), when every edge in n's lists is live with live endpoints, n's
\* parentEdges and childEdges are empty, every other node's lists have lost exactly
\* the entries that had n as an endpoint, and all other entries are unchanged.
C5_RemoveDetachesNode ==
    [][\A n \in Nodes :
        (Did("remove") /\ last'.n = n /\ AllUsable(parentEdges[n]) /\ AllUsable(childEdges[n]))
        => /\ parentEdges'[n] = <<>>
           /\ childEdges'[n] = <<>>
           /\ \A m \in Nodes \ {n} :
                /\ parentEdges'[m] = SelectSeq(parentEdges[m], LAMBDA x : ~Touches(x, n))
                /\ childEdges'[m] = SelectSeq(childEdges[m], LAMBDA x : ~Touches(x, n))]_vars

\* C5 witness: remove() ran on a node joined to one neighbour by several entries, and
\* an edge between two other nodes is still linked.
C5_Witness ==
    /\ last.op = "remove"
    /\ last.k >= 2
    /\ parentEdges[last.n] = <<>>
    /\ childEdges[last.n] = <<>>
    /\ \E m \in Nodes \ {last.n} : Len(childEdges[m]) >= 1

\* C6: addEdge and removeEdge on an expired edge, or on an edge whose parent or child
\* is gone, change no edge list of any node.
C6_StaleEdgeIsNoOp ==
    [][\A e \in Edges :
        ((Did("addEdge") \/ Did("removeEdge")) /\ last'.e = e /\ ~EdgeUsable(e))
        => (parentEdges' = parentEdges /\ childEdges' = childEdges)]_vars

\* C6 witness: addEdge was called with a stale edge while other entries were linked.
C6_Witness ==
    /\ last.op = "addEdge"
    /\ ~EdgeUsable(last.e)
    /\ \E n \in Nodes : Len(childEdges[n]) >= 1

\* ------------------------------------------------------ selection claims
\* The step just taken was a selection call; its node is last'.n and the priority
\* list it walked is last'.k.
DidSelect == Did("selectOptimal") \/ Did("selectPrefer")
WasSelect == last.op = "selectOptimal" \/ last.op = "selectPrefer"

Descs(n) == supportedPrimitiveDescriptors[n]
DescIndices(n) == 0..(Len(Descs(n)) - 1)

\* Descriptor i is a candidate of a tier: same implementation type, and no more
\* input configs than the node has parent edges.
Eligible(n, i, type) ==
    /\ Descs(n)[i + 1].implType = type
    /\ Len(Descs(n)[i + 1].inConfs) <= Len(parentEdges[n])

CandidateTiers(n, P) == {t \in 1..Len(P) : \E i \in DescIndices(n) : Eligible(n, i, P[t])}

\* The earliest tier with a candidate; 0 when no tier has one.
WinningTier(n, P) ==
    IF CandidateTiers(n, P) = {} THEN 0
    ELSE CHOOSE t \in CandidateTiers(n, P) : \A u \in CandidateTiers(n, P) : t <= u

\* The already-selected output layout of the parent behind parent edge j (1-based):
\* "none" when that parent has no selected descriptor or no output config; a port
\* index outside the parent's output configs reads port 0.
ParentOutLayout(n, j) ==
    LET e == parentEdges[n][j]
        p == edgeParent[e]
        sel == selectedPrimitiveDescriptorIndex[p]
    IN  IF sel = -1 THEN "none"
        ELSE LET outs == Descs(p)[sel + 1].outConfs
             IN  IF outs = <<>> THEN "none"
                 ELSE IF edgePort[e] + 1 \in DOMAIN outs THEN outs[edgePort[e] + 1].desc.format
                 ELSE outs[1].desc.format

\* The neighbour-match count of descriptor i.
NeighbourMatches(n, i) ==
    Cardinality({j \in 1..Len(Descs(n)[i + 1].inConfs) :
                    Descs(n)[i + 1].inConfs[j].desc.format = ParentOutLayout(n, j)})

\* C7: the first priority tier that has a candidate wins: the selected descriptor is
\* a candidate of the earliest tier for which a candidate exists, whatever the match
\* counts of the candidates of later tiers.
C7_FirstTierWins ==
    [][DidSelect
        => \A t \in {WinningTier(last'.n, last'.k)} :
            t # 0
            => /\ ~threw'
               /\ selectedPrimitiveDescriptorIndex'[last'.n] \in DescIndices(last'.n)
               /\ Eligible(last'.n, selectedPrimitiveDescriptorIndex'[last'.n], last'.k[t])]_vars

\* C7 witness: a selection chose a candidate of the winning tier although a candidate
\* of a later tier has a strictly higher match count.
C7_Witness ==
    /\ WasSelect
    /\ WinningTier(last.n, last.k) # 0
    /\ Eligible(last.n, selectedPrimitiveDescriptorIndex[last.n],
                last.k[WinningTier(last.n, last.k)])
    /\ \E t \in CandidateTiers(last.n, last.k) : \E i \in DescIndices(last.n) :
        /\ t > WinningTier(last.n, last.k)
        /\ Eligible(last.n, i, last.k[t])
        /\ NeighbourMatches(last.n, i)
             > NeighbourMatches(last.n, selectedPrimitiveDescriptorIndex[last.n])

\* The candidates of the winning tier.
Winners(n, P) ==
    LET t == WinningTier(n, P)
    IN  IF t = 0 THEN {} ELSE {i \in DescIndices(n) : Eligible(n, i, P[t])}

\* The chosen index has the highest count among the winners, and the smallest
\* index among the winners with that count.
HighestCountFirstIndex(chosen, winners, count) ==
    /\ chosen \in winners
    /\ \A i \in winners :
        /\ count[i] <= count[chosen]
        /\ count[i] = count[chosen] => chosen <= i

\* C8: within the winning tier the selected descriptor has the highest match count,
\* and among the candidates with that count it has the smallest index.
C8_HighestCountFirstIndex ==
    [][DidSelect
        => \A winners \in {Winners(last'.n, last'.k)} :
            winners # {}
            => \A count \in {[i \in winners |-> NeighbourMatches(last'.n, i)]} :
                HighestCountFirstIndex(selectedPrimitiveDescriptorIndex'[last'.n], winners, count)]_vars

\* C8 witness: two candidates of the winning tier share the highest, non-zero match
\* count and the one with the smaller index is selected.
C8_Witness ==
    /\ WasSelect
    /\ \E i \in Winners(last.n, last.k) :
        /\ i > selectedPrimitiveDescriptorIndex[last.n]
        /\ selectedPrimitiveDescriptorIndex[last.n] \in Winners(last.n, last.k)
        /\ NeighbourMatches(last.n, i) = NeighbourMatches(last.n, selectedPrimitiveDescriptorIndex[last.n])
        /\ NeighbourMatches(last.n, i) >= 1

\* C9: when no tier has a candidate, a non-empty descriptor list gets index 0
\* selected; an empty list raises an error and leaves the selected index as it was.
C9_FallbackOrError ==
    [][(DidSelect /\ WinningTier(last'.n, last'.k) = 0)
        => IF Descs(last'.n) = <<>>
           THEN /\ threw'
                /\ selectedPrimitiveDescriptorIndex'[last'.n] = selectedPrimitiveDescriptorIndex[last'.n]
           ELSE /\ ~threw'
                /\ selectedPrimitiveDescriptorIndex'[last'.n] = 0]_vars

\* C9 witness: no tier had a candidate among several descriptors and index 0 was selected.
C9_Witness ==
    /\ WasSelect
    /\ WinningTier(last.n, last.k) = 0
    /\ Len(Descs(last.n)) >= 2
    /\ ~threw
    /\ selectedPrimitiveDescriptorIndex[last.n] = 0

\* C10: a selection call repeated with the same priority list, with nothing changed
\* in between, leaves the selected index it found.
C10_SelectionRepeatable ==
    [][(DidSelect /\ last'.e >= 2)
        => selectedPrimitiveDescriptorIndex'[last'.n] = selectedPrimitiveDescriptorIndex[last'.n]]_vars

\* C10 witness: selectOptimalPrimitiveDescriptor ran twice in a row (the first call
\* stored the merged priority list) and a descriptor other than the first is selected.
C10_Witness ==
    /\ last.op = "selectOptimal"
    /\ last.e >= 2
    /\ implPriorities[last.n] = last.k
    /\ Len(last.k) > Len(DefaultPriorities) - 1
    /\ selectedPrimitiveDescriptorIndex[last.n] >= 1

\* ------------------------------------------- constant classification claims
Range(s) == {s[i] : i \in 1..Len(s)}

\* The nodes a pass from node n meets when nothing cuts it short: the neighbours of
\* n in the direction of the pass, and the neighbours of every unclassified node met.
Expand(look, S) ==
    S \cup UNION {Range(Neighbours(look, m)) : m \in {x \in S : constant[x] = "Unknown"}}

RECURSIVE Closure(_, _)
Closure(look, S) == IF Expand(look, S) = S THEN S ELSE Closure(look, Expand(look, S))

Encountered(look, n) == Closure(look, Range(Neighbours(look, n)))

MeetsConst(look, n) == \E m \in Encountered(look, n) : constant[m] = "Const"
MeetsNoConst(look, n) == \E m \in Encountered(look, n) : constant[m] = "NoConst"

\* C13: the classification is memoized and total: an isConstant() call leaves the
\* node Const or NoConst, never Unknown; a classified node keeps its classification
\* through every later step (edges added, neighbours classified), and a later
\* isConstant() call on it returns that classification.
C13_ClassificationMemoized ==
    [][\A n \in Nodes :
        /\ (Did("isConstant") /\ last'.n = n)
            => /\ constant'[n] \in {"Const", "NoConst"}
               /\ ret' = Ret(constant'[n] = "Const")
        /\ constant[n] # "Unknown" => constant'[n] = constant[n]]_vars

\* C13 witness: isConstant() was called again on a node that an earlier call had
\* classified, and returned the memoized classification although a fresh traversal of
\* the present graph gives the other one.
C13_Witness ==
    /\ last.op = "isConstant"
    /\ last.k # "Unknown"
    /\ constant[last.n] = last.k
    /\ ret = Ret(last.k = "Const")
    /\ ~IsSource(last.n)
    /\ Classify([constant EXCEPT ![last.n] = "Unknown"], last.n) # last.k

\* C14: when a pass of isConstant (downstream or upstream) meets a node classified
\* Const and no node classified NoConst, the queried node is concluded Const,
\* whichever unclassified nodes the pass visits after the Const one.
C14_ConstFoundMeansConst ==
    [][\A n \in Nodes :
        (Did("isConstant") /\ last'.n = n /\ constant[n] = "Unknown"
            /\ \E look \in {"LOOK_DOWN", "LOOK_UP"} :
                    MeetsConst(look, n) /\ ~MeetsNoConst(look, n))
        => constant'[n] = "Const"]_vars

\* C15 as stated: a node from which a Const node is reachable through parent edges
\* over unclassified nodes is classified Const, whatever its children are.
C15_AnyConstAncestor ==
    [][\A n \in Nodes :
        (Did("isConstant") /\ last'.n = n /\ constant[n] = "Unknown" /\ MeetsConst("LOOK_UP", n))
        => constant'[n] = "Const"]_vars

\* A node at which the upstream pass ends: a classified node, or an unclassified
\* node without parent edges.
Terminal(m) == constant[m] # "Unknown" \/ parentEdges[m] = <<>>

\* C15: isConstant() classifies a node as Const whenever a Const node is reachable
\* from it through parent edges over unclassified nodes and every node at which that
\* upstream traversal ends is classified Const, whatever the classification of its
\* children (a NoConst found downstream only ends the downstream pass).
C15_AllSourcesConst ==
    [][\A n \in Nodes :
        (Did("isConstant") /\ last'.n = n /\ constant[n] = "Unknown"
            /\ MeetsConst("LOOK_UP", n)
            /\ \A m \in Encountered("LOOK_UP", n) : Terminal(m) => constant[m] = "Const")
        => (constant'[n] = "Const" /\ ret' = Ret(TRUE))]_vars

\* C15 witness: isConstant() classified as Const an unclassified node that has a
\* NoConst child and a Const parent.
C15_Witness ==
    /\ last.op = "isConstant"
    /\ last.k = "Unknown"
    /\ constant[last.n] = "Const"
    /\ ret = Ret(TRUE)
    /\ \E c \in Range(ChildNodes(last.n)) : constant[c] = "NoConst"
    /\ \E p \in Range(ParentNodes(last.n)) : constant[p] = "Const"

\* ------------------------------------------------ in-place eligibility claims
\* The node behind the only parent edge of n.
SoleParent(n) == edgeParent[parentEdges[n][1]]

\* After the call the parent is classified Const while the node is not.
ConstFeedsNonConst(C, n) == C[SoleParent(n)] = "Const" /\ C[n] # "Const"

SameShapes(n) ==
    \A i \in 1..Len(childEdges[n]) : edgeDims[childEdges[n][i]] = edgeDims[parentEdges[n][1]]

\* A Reshape parent has a parent of its own, and that one has exactly one child edge.
ReshapeParentUnshared(n) ==
    nodeType[SoleParent(n)] = "Reshape"
    => /\ parentEdges[SoleParent(n)] # <<>>
       /\ Len(childEdges[SoleParent(SoleParent(n))]) = 1

\* C11: canBeInPlace() returns true only if the node has exactly one parent edge, that
\* parent has exactly one child edge, the parent is not classified Const while the
\* node is not, every child edge of the node has the shape of the parent edge, and a
\* Reshape parent's own parent has exactly one child edge; with a second child edge
\* on the parent, or a Const parent feeding a node that is not Const, it returns false.
C11_InPlaceOnlyIf ==
    [][\A n \in Nodes :
        (Did("canBeInPlace") /\ last'.n = n)
        => /\ ret' = Ret(TRUE)
                => /\ Len(parentEdges[n]) = 1
                   /\ Len(childEdges[SoleParent(n)]) = 1
                   /\ ~ConstFeedsNonConst(constant', n)
                   /\ SameShapes(n)
                   /\ ReshapeParentUnshared(n)
           /\ (Len(parentEdges[n]) = 1 /\ Len(childEdges[SoleParent(n)]) >= 2)
                => ret' = Ret(FALSE)
           /\ (Len(parentEdges[n]) = 1 /\ Len(childEdges[SoleParent(n)]) = 1
                    /\ ConstFeedsNonConst(constant', n))
                => ret' = Ret(FALSE)]_vars

\* C11 witness: canBeInPlace() returned true for a node with child edges behind a
\* Reshape parent.
C11_Witness ==
    /\ last.op = "canBeInPlace"
    /\ ret = Ret(TRUE)
    /\ Len(parentEdges[last.n]) = 1
    /\ nodeType[SoleParent(last.n)] = "Reshape"
    /\ ReshapeParentUnshared(last.n)

\* C12 as stated: one parent edge, a parent with one child edge and child edges of
\* the parent edge's shape are enough for canBeInPlace() to return true.
C12_TopologyAndShapesSuffice ==
    [][\A n \in Nodes :
        (Did("canBeInPlace") /\ last'.n = n
            /\ Len(parentEdges[n]) = 1 /\ Len(childEdges[SoleParent(n)]) = 1 /\ SameShapes(n))
        => ret' = Ret(TRUE)]_vars

\* C12: for every node with exactly one parent edge whose parent has exactly one
\* child edge, whose child edges all have the shape of the parent edge, whose parent
\* is not classified Const while the node is not, and whose parent, when it is a
\* Reshape, has a parent edge to a node with exactly one child edge, canBeInPlace()
\* returns true.
C12_InPlaceIf ==
    [][\A n \in Nodes :
        (Did("canBeInPlace") /\ last'.n = n
            /\ Len(parentEdges[n]) = 1 /\ Len(childEdges[SoleParent(n)]) = 1 /\ SameShapes(n)
            /\ ~ConstFeedsNonConst(constant', n)
            /\ ReshapeParentUnshared(n))
        => (ret' = Ret(TRUE) /\ ~threw')]_vars

\* C12 witness: canBeInPlace() returned true for a node with a child edge whose parent
\* is classified Const.
C12_Witness ==
    /\ last.op = "canBeInPlace"
    /\ ret = Ret(TRUE)
    /\ childEdges[last.n] # <<>>
    /\ Len(parentEdges[last.n]) = 1
    /\ constant[SoleParent(last.n)] = "Const"
    /\ constant[last.n] = "Const"

\* ------------------------------------------------------ weight cache claims
\* The key of the request for blob i of node n, and of the request a buffer was
\* built for: (node name, blob index, byte size, content hash).
RequestKey(n, i) ==
    <<nodeName[n], i, internalBlobs[n][i + 1].byteSize,
      hash(internalBlobs[n][i + 1].content, internalBlobs[n][i + 1].byteSize)>>
BufferKey(b) == <<b.name, b.index, b.blob.byteSize, hash(b.blob.content, b.blob.byteSize)>>

\* The nodes that share the one weight cache.
Sharers == {n \in Nodes : cacheOf[n] = "shared"}

\* The buffers built, through the cache, for a key.
BuiltFor(bufs, key) ==
    {b \in 1..Len(bufs) : bufs[b].cacheOf = "shared" /\ BufferKey(bufs[b]) = key}

\* C16: over any sequence of prepareMemory calls sharing one weight cache, a request
\* is answered with the one buffer built for its key (node name, blob index, byte
\* size, content hash): every request with the identical key was answered with the
\* identical buffer, the factory has run exactly once for that key, and every
\* request that differs in content hash or in another key component holds a
\* different buffer.
C16_CacheDeduplicates ==
    [][\A n \in Sharers :
        (Did("findOrCreate") /\ last'.n = n)
        => \A key \in {RequestKey(n, last'.k)} :
            \A ptr \in {internalBlobMemory'[n][last'.k + 1]} :
                /\ BuiltFor(buffers', key) = {ptr}
                /\ \A m \in Sharers : \A j \in 1..Len(internalBlobMemory'[m]) :
                        (RequestKey(m, j - 1) = key) <=> (internalBlobMemory'[m][j] = ptr)]_vars

\* C16 witness: a node has run prepareMemory twice and holds the buffer built once for
\* its key, and a node whose request differs in the content hash alone holds another.
C16_Witness ==
    /\ last.op = "findOrCreate"
    /\ \E n \in Sharers, m \in Sharers :
        /\ internalBlobs[n] # <<>> /\ internalBlobs[m] # <<>>
        /\ pc[n].calls = 2 /\ pc[n].at = "done" /\ pc[m].at = "done"
        /\ Cardinality(BuiltFor(buffers, RequestKey(n, 0))) = 1
        /\ internalBlobMemory[n][1] # internalBlobMemory[m][1]
        /\ \A f \in 1..3 : RequestKey(n, 0)[f] = RequestKey(m, 0)[f]
        /\ RequestKey(n, 0)[4] # RequestKey(m, 0)[4]

\* C17: with interleaved callers, requests with an identical key held by different
\* callers are the same buffer, and no key has had more than one buffer built for it.
C17_ConcurrentCallersShare ==
    /\ \A n \in Sharers, m \in Sharers :
        \A i \in 1..Len(internalBlobMemory[n]), j \in 1..Len(internalBlobMemory[m]) :
            (n # m /\ RequestKey(n, i - 1) = RequestKey(m, j - 1))
            => internalBlobMemory[n][i] = internalBlobMemory[m][j]
    /\ \A b \in 1..Len(buffers) :
        buffers[b].cacheOf = "shared" => BuiltFor(buffers, BufferKey(buffers[b])) = {b}

\* C17 witness: two callers are both in the middle of prepareMemory, one waiting for
\* the lock the other holds, and hold the same buffer for the same key.
C17_Witness ==
    \E n \in Sharers, m \in Sharers :
        /\ n # m
        /\ pc[n].at = "blob" /\ pc[n].i = 1
        /\ pc[m].at \in {"find", "create", "release"} /\ pc[m].i = 1
        /\ guard = m
        /\ RequestKey(n, 0) = RequestKey(m, 0)
        /\ internalBlobMemory[n][1] = internalBlobMemory[m][1]
        /\ internalBlobs[n][1] # internalBlobs[m][1]

\* ----------------------------------------------------- format filter claims
\* The layout of a port matches a hint: same dimension order and same blocks as the
\* hinted format, whatever the strides.
MatchesHint(tdesc, fmt) ==
    /\ tdesc.order = MemoryDescOf(fmt).order
    /\ tdesc.blocks = MemoryDescOf(fmt).blocks

\* Every hinted port of descriptor d matches its hint.
MatchesAllHints(d, n) ==
    /\ \A i \in 1..Len(inputMemoryFormatsFilter[n]) :
        i \in DOMAIN d.inConfs /\ MatchesHint(d.inConfs[i].desc, inputMemoryFormatsFilter[n][i])
    /\ \A i \in 1..Len(outputMemoryFormatsFilter[n]) :
        i \in DOMAIN d.outConfs /\ MatchesHint(d.outConfs[i].desc, outputMemoryFormatsFilter[n][i])

HintsDeclared(n) == inputMemoryFormatsFilter[n] # <<>> \/ outputMemoryFormatsFilter[n] # <<>>

\* C18: a filterSupportedPrimitiveDescriptors call that does not fail leaves, when a
\* hint is declared, exactly the descriptors whose hinted input and output ports all
\* match their hints, in their original order; without hints it leaves the list as
\* it was.
C18_FilterKeepsMatching ==
    [][\A n \in Nodes :
        (Did("filter") /\ last'.n = n /\ ~threw')
        => IF HintsDeclared(n)
           THEN supportedPrimitiveDescriptors'[n] =
                    SelectSeq(supportedPrimitiveDescriptors[n], LAMBDA d : MatchesAllHints(d, n))
           ELSE supportedPrimitiveDescriptors'[n] = supportedPrimitiveDescriptors[n]]_vars

\* C18 witness: with two input hints declared the filter removed a descriptor and kept
\* another one whose ports have the hinted layout with padded strides.
C18_Witness ==
    /\ last.op = "filter"
    /\ ~threw
    /\ Len(inputMemoryFormatsFilter[last.n]) = 2
    /\ Len(supportedPrimitiveDescriptors[last.n]) < Len(last.k)
    /\ \E i \in 1..Len(supportedPrimitiveDescriptors[last.n]) :
        supportedPrimitiveDescriptors[last.n][i].inConfs[1].desc.strides = "padded"

\* C19: filterSupportedPrimitiveDescriptors fails whenever more input hints, or more
\* output hints, are declared than a descriptor of the list has input, or output, ports.
C19_TooManyHintsFails ==
    [][\A n \in Nodes :
        (Did("filter") /\ last'.n = n
            /\ \E i \in 1..Len(supportedPrimitiveDescriptors[n]) :
                \/ Len(inputMemoryFormatsFilter[n]) > Len(supportedPrimitiveDescriptors[n][i].inConfs)
                \/ Len(outputMemoryFormatsFilter[n]) > Len(supportedPrimitiveDescriptors[n][i].outConfs))
        => threw']_vars

\* C19 witness: the filter failed on the second descriptor, which has fewer input
\* ports than there are input hints, after it had removed the first one.
C19_Witness ==
    /\ last.op = "filter"
    /\ threw
    /\ Len(last.k) >= 2
    /\ Len(supportedPrimitiveDescriptors[last.n]) = Len(last.k) - 1
    /\ Len(inputMemoryFormatsFilter[last.n]) > Len(supportedPrimitiveDescriptors[last.n][1].inConfs)
    /\ outputMemoryFormatsFilter[last.n] = <<>>

\* ----------------------------------------------------- dynamic batch claims
\* The node has an input shape 0 with a leading dimension.
HasInputBatch(n) == inDims[n] # <<>> /\ inDims[n][1] # <<>>

\* The natural batch size: the leading dimension of input shape 0.
NaturalBatch(n) == Head(Head(inDims[n]))

\* C20: batchToProcess() returns the natural batch size (the leading dimension of
\* input shape 0) when the configured limit is 0, and the smaller of the configured
\* limit and the natural batch size otherwise; it never exceeds the natural batch size.
C20_EffectiveBatch ==
    [][\A n \in Nodes :
        (Did("batchToProcess") /\ last'.n = n /\ HasInputBatch(n))
        => \A batch \in Range(ret') :
            /\ ret' # NoRet
            /\ dynBatchLim[n] = 0 => batch = NaturalBatch(n)
            /\ dynBatchLim[n] # 0
                => /\ batch \in {dynBatchLim[n], NaturalBatch(n)}
                   /\ batch <= dynBatchLim[n]
            /\ batch <= NaturalBatch(n)]_vars

\* C20 witness: batchToProcess() returned the natural batch size under a configured
\* limit that is larger.
C20_Witness ==
    /\ last.op = "batchToProcess"
    /\ HasInputBatch(last.n)
    /\ dynBatchLim[last.n] > NaturalBatch(last.n)
    /\ ret = Ret(NaturalBatch(last.n))

\* The argument roles that carry the batch as their leading dimension.
BatchRoles == {"DNNL_ARG_SRC", "DNNL_ARG_DST", "DNNL_ARG_DIFF_SRC", "DNNL_ARG_DIFF_DST"}

\* C21: after setDynamicBatchLim(B) with 0 < B < natural batch every bound argument
\* in the roles source, destination, gradient-source and gradient-destination has
\* leading dimension B and its data handle, and the arguments of other roles are
\* untouched; setDynamicBatchLim(0) gives each of those arguments the natural batch
\* size as leading dimension again.
C21_BatchPatchRoundTrip ==
    [][\A n \in Nodes :
        (Did("setDynamicBatchLim") /\ last'.n = n /\ HasInputBatch(n))
        => /\ DOMAIN primArgs'[n] = DOMAIN primArgs[n]
           /\ \A a \in DOMAIN primArgs[n] :
                /\ (a \in BatchRoles /\ 0 < last'.k /\ last'.k < NaturalBatch(n))
                    => /\ primArgs'[n][a].dims0 = last'.k
                       /\ primArgs'[n][a].handle = primArgs[n][a].handle
                /\ (a \in BatchRoles /\ last'.k = 0)
                    => /\ primArgs'[n][a].dims0 = NaturalBatch(n)
                       /\ primArgs'[n][a].handle = primArgs[n][a].handle
                /\ a \notin BatchRoles => primArgs'[n][a] = primArgs[n][a]]_vars

\* C21 witness: a limit below the natural batch has been set and the bound source
\* argument carries it, next to a weights argument.
C21_Witness ==
    /\ last.op = "setDynamicBatchLim"
    /\ HasInputBatch(last.n)
    /\ 0 < last.k /\ last.k < NaturalBatch(last.n)
    /\ {"DNNL_ARG_SRC", "DNNL_ARG_WEIGHTS"} \subseteq DOMAIN primArgs[last.n]
    /\ primArgs[last.n]["DNNL_ARG_SRC"].dims0 = last.k

\* ------------------------------------------------------ enumeration claims
\* The number of implementations of the node's templates before template t.
RECURSIVE ImplsBefore(_, _)
ImplsBefore(n, t) == IF t <= 1 THEN 0 ELSE ImplsBefore(n, t - 1) + Len(descs[n][t - 1].impls)

\* C22: initSupportedPrimitiveDescriptors is idempotent: on a node whose descriptor
\* list is not empty the call changes nothing, and a call that directly follows a
\* call on the same node leaves the list as the first call left it.
C22_EnumerationIdempotent ==
    [][\A n \in Nodes :
        (Did("initSupportedPrimitiveDescriptors") /\ last'.n = n)
        => /\ supportedPrimitiveDescriptors[n] # <<>>
                => /\ supportedPrimitiveDescriptors' = supportedPrimitiveDescriptors
                   /\ constant' = constant
                   /\ ~threw'
           /\ (last.op = "initSupportedPrimitiveDescriptors" /\ last.n = n)
                => supportedPrimitiveDescriptors' = supportedPrimitiveDescriptors]_vars

\* C22 witness: the call was made on a node whose list held two descriptors.
C22_Witness ==
    /\ last.op = "initSupportedPrimitiveDescriptors"
    /\ Len(last.k) = 2
    /\ supportedPrimitiveDescriptors[last.n] = last.k

\* C23: a call of initSupportedPrimitiveDescriptors on an empty list that does not
\* raise leaves one descriptor per backend implementation of each template, in
\* template order and then in the backend's order; every input port of each has
\* in-place index -1 and constant flag false, every output port has constant flag
\* false and in-place index 0 if canBeInPlace() holds for the node and -1 otherwise.
C23_EnumerationBuildsList ==
    [][\A n \in Nodes :
        (/\ Did("initSupportedPrimitiveDescriptors") /\ last'.n = n
         /\ supportedPrimitiveDescriptors[n] = <<>> /\ ~threw')
        => /\ Len(supportedPrimitiveDescriptors'[n]) = ImplsBefore(n, Len(descs[n]) + 1)
           /\ \A t \in DOMAIN descs[n] : \A k \in DOMAIN descs[n][t].impls :
                LET d == supportedPrimitiveDescriptors'[n][ImplsBefore(n, t) + k]
                    impl == descs[n][t].impls[k]
                IN  /\ d.implType = parse_impl_name(impl.impl_info_str)
                    /\ Len(d.inConfs) = descs[n][t].inputNumbers
                    /\ Len(d.outConfs) = descs[n][t].outputNumbers
                    /\ \A i \in DOMAIN d.inConfs :
                        /\ d.inConfs[i].inPlace = -1
                        /\ d.inConfs[i].constant = FALSE
                        /\ d.inConfs[i].desc.format = impl.src[i].format
                    /\ \A i \in DOMAIN d.outConfs :
                        /\ d.outConfs[i].inPlace
                            = (IF canBeInPlace(n).ret = Ret(TRUE) THEN 0 ELSE -1)
                        /\ d.outConfs[i].constant = FALSE
                        /\ d.outConfs[i].desc.format = impl.dst[i].format]_vars

\* C23 witness: a call on an empty list enumerated two templates, three
\* implementations in all, on a node that can run in place.
C23_Witness ==
    /\ last.op = "initSupportedPrimitiveDescriptors"
    /\ last.k = <<>>
    /\ ~threw
    /\ Len(descs[last.n]) = 2
    /\ Len(supportedPrimitiveDescriptors[last.n]) = 3
    /\ supportedPrimitiveDescriptors[last.n][1].outConfs[1].inPlace = 0

\* -------------------------------------------------- edge resolution claims
\* Edge e sits at a position of node n's parent (child) edge list whose input
\* (output) config in the selected descriptor has a non-negative in-place index.
InPlacePort(n, e) ==
    LET pd == supportedPrimitiveDescriptors[n][selectedPrimitiveDescriptorIndex[n] + 1]
    IN  \/ \E i \in DOMAIN parentEdges[n] \cap DOMAIN pd.inConfs :
            parentEdges[n][i] = e /\ pd.inConfs[i].inPlace >= 0
        \/ \E i \in DOMAIN childEdges[n] \cap DOMAIN pd.outConfs :
            childEdges[n][i] = e /\ pd.outConfs[i].inPlace >= 0

\* C24: resolveNotAllocatedEdges changes the status of an edge only from NotAllocated
\* to Allocated, and only of an edge whose port config in the node's selected
\* descriptor has a non-negative in-place index; every edge keeps its raw data
\* pointer; an edge that is Allocated or Validated, or whose port is not in-place,
\* keeps status and memory; without a selected descriptor the call raises an error
\* and changes no edge.
C24_AllocationOneDirectional ==
    [][\A n \in Nodes :
        (Did("resolveNotAllocatedEdges") /\ last'.n = n)
        => IF selectedPrimitiveDescriptorIndex[n] = -1
           THEN threw' /\ edgeStatus' = edgeStatus /\ edgeMemory' = edgeMemory
           ELSE \A e \in Edges :
                /\ edgeStatus'[e] # edgeStatus[e]
                    => /\ edgeStatus[e] = "NotAllocated"
                       /\ edgeStatus'[e] = "Allocated"
                       /\ InPlacePort(n, e)
                /\ edgeMemory'[e].data = edgeMemory[e].data
                /\ (edgeStatus[e] \in {"Allocated", "Validated"} \/ ~InPlacePort(n, e))
                    => /\ edgeStatus'[e] = edgeStatus[e]
                       /\ edgeMemory'[e] = edgeMemory[e]]_vars

\* C24 witness: the call allocated one edge of the node over its old pointer with
\* the descriptor of the port, and left another edge of the node NotAllocated.
C24_Witness ==
    /\ last.op = "resolveNotAllocatedEdges"
    /\ last.n = Middle
    /\ ~threw
    /\ \E e, f \in Edges :
        /\ edgeStatus[e] = "Allocated" /\ InPlacePort(Middle, e)
        /\ edgeMemory[e] = Memory(e, PortDesc("FP32", <<2, 3>>, "nchw", TRUE))
        /\ edgeStatus[f] = "NotAllocated" /\ ~InPlacePort(Middle, f)
        /\ Middle \in {edgeParent[f], edgeChild[f]}

\* The implementation types the re-enumeration of n's templates yields.
EnumeratedTypes(n) ==
    {parse_impl_name(impl.impl_info_str) :
        impl \in UNION {Range(descs[n][j].impls) : j \in DOMAIN descs[n]}}

\* C27: whenever initDescriptor runs on a node with a selected descriptor whose
\* templates enumerate no implementation of the selected descriptor's implementation
\* type (also when they enumerate fewer implementations than the selected index),
\* the call fails with an error.
C27_NoMatchFails ==
    [][\A n \in Nodes :
        (/\ Did("initDescriptor") /\ last'.n = n
         /\ getSelectedPrimitiveDescriptor(n) # NoDesc
         /\ descs[n] # <<>>
         /\ getSelectedPrimitiveDescriptor(n).implType \notin EnumeratedTypes(n))
        => threw']_vars

\* C28: every read of a neighbour's selected port config through the port index
\* recorded on an edge stays within the neighbour's config list: an index that is
\* negative or not smaller than the list's size is replaced by 0 and the read that
\* follows is in range, so no finalization call indexes a config list past its end.
C28_PortAccessInRange ==
    (last.op \in {"getConfiguredInputDesc", "getConfiguredOutputDesc",
                  "initOptimalPrimitiveDescriptor"})
    => ~outOfBounds

\* The selected output config of the parent that input port idx of n is resolved
\* against, after the port-index fallback.
ParentOutConf(n, idx) ==
    LET e == getParentEdgeAt(n, idx)
        outs == getSelectedPrimitiveDescriptor(getParent(e)).outConfs
    IN  outs[ResetPort(getInputNum(e), Len(outs)) + 1]

\* C26: getConfiguredInputDesc returns an already-resolved port descriptor unchanged;
\* for an unresolved port that is not in-place and is resolved against the parent's
\* selected output config, the descriptor returned has the port's own declared
\* precision, and its layout is the parent's layout, the port's own declared format,
\* or the plain layout of the port's rank.
C26_OwnPrecision ==
    [][\A n \in Nodes :
        (Did("getConfiguredInputDesc") /\ last'.n = n /\ ret' # NoRet /\ ~outOfBounds')
        => LET own == getSelectedPrimitiveDescriptor(n).inConfs[last'.k + 1]
           IN  IF ~isUninitTensorDesc(own.desc) THEN ret' = Ret(own.desc)
               ELSE own.inPlace < 0
                    => /\ ret'[1].precision = own.desc.precision
                       /\ ret'[1].format \in {ParentOutConf(n, last'.k).desc.format,
                                              own.desc.format,
                                              getLayoutByDims(own.desc.dims)}]_vars

\* The chain's layouts as the state holds them: L1 is what A offers, L2 the input
\* layout of B's descriptor that is not L1.
ChainL1 == supportedPrimitiveDescriptors[1][1].outConfs[1].desc.format
ChainL2 ==
    LET d == supportedPrimitiveDescriptors[2]
    IN  IF d[1].inConfs[1].desc.format = ChainL1 THEN d[2].inConfs[1].desc.format
        ELSE d[1].inConfs[1].desc.format
ChainDone == last.op = "initOptimalPrimitiveDescriptor" /\ last.n = 3
ChainInput == getSelectedPrimitiveDescriptor(3).inConfs[1].desc

\* C25 as stated: once the chain A -> B -> C has been selected and finalized in
\* order, B's selected descriptor is its L1 one, and C's input port is not L1 but
\* the default dense (plain) layout of its rank.
C25_DefaultDenseFallback ==
    ChainDone
    => /\ ~threw
       /\ getSelectedPrimitiveDescriptor(2).inConfs[1].desc.format = ChainL1
       /\ ChainInput.format # ChainL1
       /\ ChainInput.format = getLayoutByDims(ChainInput.dims)

\* C25 amended: once the chain A -> B -> C has been selected and finalized in
\* order, no call has failed, B's selected descriptor is its L1 one whatever its
\* position in B's list, and C's input port is not L1 but C's own declared layout
\* L2 with defined strides and C's own precision; the outcome is a function of
\* the chain alone.
C25_OwnLayoutFallback ==
    /\ (selectedPrimitiveDescriptorIndex[2] # -1)
        => getSelectedPrimitiveDescriptor(2).inConfs[1].desc.format = ChainL1
    /\ ChainDone
        => /\ ~threw /\ ~outOfBounds
           /\ getSelectedPrimitiveDescriptor(2).outConfs[1].desc.format = ChainL1
           /\ ChainInput.format = ChainL2
           /\ ChainInput.format # ChainL1
           /\ ChainInput.init
           /\ ChainInput.dims = <<2, 3>>

\* C25 witness: B's L1 descriptor is its second one and was selected, and C's
\* blocked input layout survived finalization against B's plain output.
C25_Witness ==
    /\ ChainDone
    /\ selectedPrimitiveDescriptorIndex[2] = 1
    /\ ChainL1 = "nc"
    /\ ChainInput = PortDesc("I8", <<2, 3>>, "nC8c", TRUE)

\* Whether a layer passes the output check of the constructor, as the claims put it.
LacksOutputs(layer) ==
    /\ layer.outData = <<>>
    /\ ToLower(layer.type) \notin {"memory", "memoryinput", "output", "reorder", "convert"}

HasCpuPrefix(str) == Len(str) >= 4 /\ SubSeq(str, 1, 4) = "cpu:"
Unrecognized(str) == HasCpuPrefix(str) /\ parse_impl_name(str) = "unknown" /\ str # "cpu:unknown"

\* A layer whose strings cannot fail construction: every cpu: entry of its
\* PrimitivesPriority is recognized and it declares no memory formats.
PlainStrings(layer) ==
    /\ \A i \in DOMAIN Entries(layer.priority) : ~Unrecognized(layer.priority[i])
    /\ layer.inputMemoryFormats = NoParam
    /\ layer.outputMemoryFormats = NoParam

RECURSIVE CpuPriorities(_)
CpuPriorities(entries) ==
    IF entries = <<>> THEN <<>>
    ELSE (IF HasCpuPrefix(Head(entries)) THEN <<parse_impl_name(Head(entries))>> ELSE <<>>)
         \o CpuPriorities(Tail(entries))

\* C30: for a layer that passes the output check and declares no memory formats,
\* construction fails exactly when some cpu: entry of PrimitivesPriority names no
\* implementation and is not cpu:unknown; otherwise the node's priority list is
\* the implementation types of the cpu: entries in string order, the entries
\* without the prefix being skipped.
C30_PriorityParsing ==
    [][\A n \in Nodes :
        (/\ Did("MKLDNNNode") /\ last'.n = n
         /\ ~LacksOutputs(last'.k)
         /\ last'.k.inputMemoryFormats = NoParam /\ last'.k.outputMemoryFormats = NoParam)
        => LET entries == Entries(last'.k.priority)
           IN  /\ threw' <=> \E i \in DOMAIN entries : Unrecognized(entries[i])
               /\ ~threw' => implPriorities'[n] = CpuPriorities(entries)]_vars

\* C30 witness: a priority string with an entry without prefix, an empty entry and
\* cpu:unknown was parsed into the list unknown, ref_any.
C30_Witness ==
    /\ last.op = "MKLDNNNode" /\ ~threw
    /\ last.k.priority = <<"ref", "", "cpu:unknown", "cpu:ref_any">>
    /\ implPriorities[last.n] = <<"unknown", "ref_any">>

\* A cpu: entry of a memory format string that names no known format.
UnknownFormat(str) == HasCpuPrefix(str) /\ SubSeq(str, 5, Len(str)) \notin FormatTags
HasUnknownFormat(param) == \E i \in DOMAIN Entries(param) : UnknownFormat(param[i])

ActivationAliases == {"relu", "gelu", "sigmoid", "tanh", "swish"}

\* C32: the tag a constructed node gets from its layer's type name is Eltwise for
\* every spelling of an activation alias, is the tag of every other spelling of
\* the same name, and is Unknown for a name the table does not hold.
C32_CaselessAliasLookup ==
    [][\A n \in Nodes :
        (Did("MKLDNNNode") /\ last'.n = n /\ ~threw')
        => LET type == last'.k.type
           IN  /\ ToLower(type) \in ActivationAliases => nodeType'[n] = "Eltwise"
               /\ \A other \in LayerTypeNames :
                     ToLower(other) = ToLower(type) => TypeFromName(other) = nodeType'[n]
               /\ ToLower(type) \notin DOMAIN type_to_name_tbl => nodeType'[n] = "Unknown"]_vars

\* C32 witness: a node was built from a layer of type SWISH after one of type
\* gelu, both are Eltwise, and a node built from a layer of type Outputs would be
\* Unknown.
C32_Witness ==
    /\ last.op = "MKLDNNNode" /\ last.n = 2 /\ ~threw
    /\ last.k.type = "SWISH" /\ nodeType[2] = "Eltwise"
    /\ nodeAlive[1] /\ nodeType[1] = "Eltwise" /\ outDims[1] = <<<<4, 3>>, <<2>>>>

\* Whether the constructor accepts the layer.
Accepted(layer) ==
    /\ ~LacksOutputs(layer)
    /\ \A i \in DOMAIN Entries(layer.priority) : ~Unrecognized(layer.priority[i])
    /\ ~HasUnknownFormat(layer.inputMemoryFormats)
    /\ ~HasUnknownFormat(layer.outputMemoryFormats)

\* Each path of the factory produces a created node or does not.
GenericProduces(layer, reg) == reg.generic /\ Accepted(layer) /\ reg.genericCreated
BuiltInProduces(layer, reg) ==
    /\ \E type \in reg.registered : type = TypeFromName(layer.type)
    /\ Accepted(layer) /\ reg.builtinCreated

\* C33: create returns the generic node whenever the generic path produces a
\* created node, the built-in node of TypeFromName(type) when only the built-in
\* path does, and raises, leaving no node, when neither does.
C33_GenericThenBuiltIn ==
    [][\A n \in Nodes :
        (Did("NodesFactory::create") /\ last'.n = n)
        => LET layer == last'.k.layer
               reg == last'.k.reg
           IN  /\ GenericProduces(layer, reg)
                     => ~threw' /\ ret' = Ret([node |-> n, via |-> "Generic"])
               /\ (~GenericProduces(layer, reg) /\ BuiltInProduces(layer, reg))
                     => /\ ~threw'
                        /\ ret' = Ret([node |-> n, via |-> TypeFromName(layer.type)])
               /\ (~GenericProduces(layer, reg) /\ ~BuiltInProduces(layer, reg))
                     => threw' /\ ret' = NoRet /\ ~nodeAlive'[n]
               /\ ~threw' => nodeAlive'[n]]_vars

\* C33 witness: with both constructors registered and both nodes answering
\* created, the generic node was returned; before it, a built-in node.
C33_Witness ==
    /\ last.op = "NodesFactory::create" /\ last.n = 2 /\ ~threw
    /\ last.k.reg = Registry(TRUE, BuiltInTypes, TRUE, TRUE)
    /\ last.k.layer.type = "ReLU"
    /\ ret = Ret([node |-> 2, via |-> "Generic"])
    /\ nodeAlive[1] /\ nodeType[1] = "Convolution"

\* An edge of the list holds no allocated memory, or is gone.
Unallocated(list, k) ==
    \/ ~edgeAlive[list[k]]
    \/ edgeMemory[list[k]] # Memory(list[k], PortDesc("FP32", <<2, 3>>, "nchw", TRUE))
SomeEdgeUnallocated(n) ==
    \/ \E k \in DOMAIN childEdges[n] : Unallocated(childEdges[n], k)
    \/ \E k \in DOMAIN parentEdges[n] : Unallocated(parentEdges[n], k)

\* C34: a prepareMemory call raises exactly when a child edge or a parent edge of
\* the node holds no allocated memory, and then leaves internalBlobMemory, the
\* cache and the buffers as they were; a call that has run to its end leaves one
\* buffer per internal blob, the k-th built for blob index k - 1 with the byte size
\* of the k-th blob.
C34_PrepareMemoryChecksFirst ==
    [][\A n \in Nodes :
        /\ (Did("prepareMemory") /\ last'.n = n)
            => /\ threw' <=> SomeEdgeUnallocated(n)
               /\ threw' => /\ internalBlobMemory' = internalBlobMemory
                            /\ weightCache' = weightCache
                            /\ buffers' = buffers
        /\ (pc'[n].at = "done" /\ ~(Did("prepareMemory") /\ last'.n = n /\ threw'))
            => /\ Len(internalBlobMemory'[n]) = Len(internalBlobs[n])
               /\ \A k \in DOMAIN internalBlobs[n] :
                     /\ buffers'[internalBlobMemory'[n][k]].index = k - 1
                     /\ buffers'[internalBlobMemory'[n][k]].blob.byteSize
                          = internalBlobs[n][k].byteSize]_vars

\* C34 witness: node 2, which has two blobs, ran prepareMemory to its end; then a
\* second parent edge without memory was linked and the next call raised, the
\* two buffers still in place.
C34_Witness ==
    /\ last.op = "prepareMemory" /\ last.n = 2 /\ threw
    /\ pc[2].calls = 2 /\ pc[2].at = "done"
    /\ parentEdges[2] = <<1, 3>> /\ edgeMemory[3] = Memory(Null, NoTensor)
    /\ Len(internalBlobMemory[2]) = 2

\* The bytes the layers hold, the node's own first, then the merged nodes' in order.
RECURSIVE BytesBefore(_, _, _)
BytesBefore(own, merged, k) ==
    IF k = 0 THEN 0
    ELSE IF k = 1 THEN own.byteSize
    ELSE merged[k - 1].byteSize + BytesBefore(own, merged, k - 1)

\* C35: every copy createInternalBlob makes lies inside the internal buffer; the
\* copies are the node's blob and then the merged nodes' blobs, back to back; the
\* call raises, instead of making the copy that would pass the end, exactly when
\* a layer is not weightable or lacks the blob or the bytes counted up to and
\* including some blob exceed the buffer's size.
C35_NoCopyPastEnd ==
    [][Did("createInternalBlob")
        => LET own == last'.k.own
               merged == last'.k.merged
               size == IntBuffSize(last'.k.precision, last'.k.dims)
               layers == <<own>> \o merged
           IN  /\ threw' <=> \E k \in DOMAIN layers :
                                \/ ~layers[k].weightable \/ ~layers[k].present
                                \/ /\ \A j \in 1..k : layers[j].weightable /\ layers[j].present
                                   /\ BytesBefore(own, merged, k) > size
               /\ ~threw'
                    => /\ ret'[1].byteSize = size
                       /\ Len(ret'[1].copies) = Len(layers)
                       /\ \A k \in DOMAIN layers :
                            /\ ret'[1].copies[k].at = BytesBefore(own, merged, k - 1)
                            /\ ret'[1].copies[k].len = layers[k].byteSize
                            /\ ret'[1].copies[k].at + ret'[1].copies[k].len <= size]_vars

\* C35 witness: an 8-byte buffer took the node's 4 bytes and two merged blobs of 2
\* bytes each, filling it to the last byte; and a call whose second merged blob
\* would pass the end raised.
C35_Witness ==
    /\ last.op = "createInternalBlob" /\ ~threw
    /\ ret[1].byteSize = 8
    /\ ret[1].copies = <<Copy(0, 4, 0), Copy(4, 2, 1), Copy(6, 2, 2)>>

\* C36: every isConstant call returns, whatever the graph.
C36_IsConstantTerminates == (walk.at = "loop") ~> (walk.at = "done")

\* C37: descriptor finalization terminates: on the acyclic chain with every
\* descriptor selected, a call of initOptimalPrimitiveDescriptor in progress returns
\* or raises; the calls between getConfiguredInputDesc and getConfiguredOutputDesc
\* through in-place indices and into a neighbour's finalization come to an end.
C37_FinalizationTerminates == (stack # <<>>) ~> (stack = <<>>)

\* The descriptors the backend enumeration of n yields, in its order.
Enumerated(n) == DescLoop(n, 0, <<>>, constant).built

\* The selected descriptor came from the implementation the backend enumerates at
\* the selected index.
SelectedIsEnumeratedAtIndex(n) ==
    /\ selectedPrimitiveDescriptorIndex[n] < Len(Enumerated(n))
    /\ Enumerated(n)[selectedPrimitiveDescriptorIndex[n] + 1] = getSelectedPrimitiveDescriptor(n)

\* C38: filtering keeps finalization consistent: after enumeration, filtering and
\* selection, initDescriptor on a node with a selected descriptor does not raise,
\* and the implementation it meets at the selected index is the one that produced
\* the selected descriptor.
C38_FilterKeepsFinalizationConsistent ==
    [][(Did("initDescriptor") /\ getSelectedPrimitiveDescriptor(Middle) # NoDesc)
       => (~threw' /\ SelectedIsEnumeratedAtIndex(Middle))]_vars

\* The in-place indices of the ports of a descriptor.
InPlaces(d) ==
    [ins |-> [i \in DOMAIN d.inConfs |-> d.inConfs[i].inPlace],
     outs |-> [i \in DOMAIN d.outConfs |-> d.outConfs[i].inPlace]]

\* C39: finalization changes only the port configuration of the selected
\* descriptor: when initOptimalPrimitiveDescriptor returns normally, the selected
\* index and the implementation type of the selected descriptor are what they were,
\* and every port of the selected descriptor has the in-place index it had.
C39_FinalizationFrame ==
    [][(Did("initOptimalPrimitiveDescriptor") /\ ~threw'
        /\ getSelectedPrimitiveDescriptor(last'.n) # NoDesc)
       => LET n == last'.n
              before == getSelectedPrimitiveDescriptor(n)
              after == SelectedIn(World(supportedPrimitiveDescriptors', constant'), n)
          IN  /\ selectedPrimitiveDescriptorIndex'[n] = selectedPrimitiveDescriptorIndex[n]
              /\ after.implType = before.implType
              /\ InPlaces(after) = InPlaces(before)]_vars

\* How often x occurs in s.
Occurrences(s, x) == Cardinality({i \in 1..Len(s) : s[i] = x})

\* A call of getPrimitivesPriority returned the configured priorities in their
\* order followed by the default priorities that were not among them, in default
\* order; a call that follows a call on the same node adds nothing.
MergedInOrder ==
    LET n == last'.n
        before == implPriorities[n]
        after == implPriorities'[n]
    IN  /\ ret' = Ret(after)
        /\ Len(after) >= Len(before)
        /\ SubSeq(after, 1, Len(before)) = before
        /\ SubSeq(after, Len(before) + 1, Len(after))
             = SelectSeq(DefaultPriorities, LAMBDA t : ~Contains(before, t))
        /\ (last.op = "getPrimitivesPriority" /\ last.n = n) => after = before

\* C40 as stated: ... and the returned list holds each default implementation type
\* exactly once.
C40_EachDefaultOnce ==
    [][Did("getPrimitivesPriority")
       => /\ MergedInOrder
          /\ \A i \in 1..Len(DefaultPriorities) :
                Occurrences(implPriorities'[last'.n], DefaultPriorities[i]) = 1]_vars

\* C40, amended: the list getPrimitivesPriority returns is the configured
\* priorities in their order followed by every default priority not among them, in
\* default order; further calls add nothing; the list holds each default type as
\* often as the configured priorities name it, and once when they do not.
C40_MergedPriorities ==
    [][Did("getPrimitivesPriority")
       => /\ MergedInOrder
          /\ \A i \in 1..Len(DefaultPriorities) :
                Occurrences(implPriorities'[last'.n], DefaultPriorities[i])
                    = IF Contains(implPriorities[last'.n], DefaultPriorities[i])
                      THEN Occurrences(implPriorities[last'.n], DefaultPriorities[i])
                      ELSE 1]_vars

\* C40 witness: a second call in a row on a node configured with two different
\* priorities returned the list the first call stored.
C40_Witness ==
    /\ last.op = "getPrimitivesPriority"
    /\ last.k = implPriorities[last.n]
    /\ Len(last.k) = Len(DefaultPriorities)
    /\ last.k[1] = "ref" /\ last.k[2] = "jit_avx2" /\ last.k[3] = "unknown"
    /\ ret = Ret(last.k)

====
